---- MODULE Spec2Model ----
(***************************************************************************)
(* A model of the prediction engine of src/predictionLogic.js (v44.3.0),   *)
(* of its earlier build src/unnamed/part_000 (v44.2.0) where the two       *)
(* differ, and of the loop of src/server.js that drives the engine.        *)
(*                                                                         *)
(* Real numbers of the program (JavaScript doubles) are fixed-point        *)
(* integers, SCALE units to 1.0; counts and comparisons of accuracies are   *)
(* exact integer arithmetic.  null and undefined, where a number is         *)
(* expected, are the integers Null and Undefined; an absent string is "".   *)
(***************************************************************************)
EXTENDS Integers, Naturals, Sequences, FiniteSets, TLC

VARIABLES
    signalPerformance,  \* module-level `signalPerformance`: source -> record, or NoPerf
    now,                \* the period / clock value the next call is made with
    ret,                \* what the most recent operation returned
    env,                \* the driver's bookkeeping: inputs fixed for a run, call counts
    driftDetector,      \* module-level `driftDetector`
    driftLog,           \* the calls of detectConceptDrift so far: argument and result
    sharedStats,        \* the state object the server holds and hands to ultraAIPredict
    REGIME_SIGNAL_PROFILES,     \* module-level: regime -> profile, or NoProfile
    consecutiveHighConfLosses,  \* module-level counter of checkForAnomalousPerformance
    reflexiveCorrectionActive,  \* module-level countdown of the reflexive correction
    GLOBAL_LONG_TERM_ACCURACY_FOR_LEARNING_RATE     \* module-level

driftVars == <<driftDetector, driftLog>>

\* the state only ultraAIPredict touches
cycleVars ==
    <<sharedStats, REGIME_SIGNAL_PROFILES, consecutiveHighConfLosses,
      reflexiveCorrectionActive, GLOBAL_LONG_TERM_ACCURACY_FOR_LEARNING_RATE>>

vars ==
    <<signalPerformance, now, ret, env, driftDetector, driftLog, sharedStats,
      REGIME_SIGNAL_PROFILES, consecutiveHighConfLosses, reflexiveCorrectionActive,
      GLOBAL_LONG_TERM_ACCURACY_FOR_LEARNING_RATE>>

-----------------------------------------------------------------------------
(* Fixed point *)

SCALE == 10 * 1000

Min(a, b) == IF a < b THEN a ELSE b

Max(a, b) == IF a > b THEN a ELSE b

\* x * y of two fixed-point numbers
Mul(x, y) == (x * y) \div SCALE

RECURSIVE SumSeq(_)
SumSeq(s) == IF s = <<>> THEN 0 ELSE Head(s) + SumSeq(Tail(s))

\* JavaScript's null and undefined where a period number is expected
Null == 0 - 1

Undefined == 0 - 2

-----------------------------------------------------------------------------
(* Constants of the signal-performance tracker *)

PERFORMANCE_WINDOW == 30

MIN_OBSERVATIONS_FOR_ADJUST == 10

MAX_WEIGHT_FACTOR == 19500

MIN_WEIGHT_FACTOR == 500

MAX_ALPHA_FACTOR == 16000

MIN_ALPHA_FACTOR == 4000

MIN_ABSOLUTE_WEIGHT == 3

INACTIVITY_PERIOD_FOR_DECAY == PERFORMANCE_WINDOW * 3

DECAY_RATE == 250

ALPHA_UPDATE_RATE == 400

PROBATION_MIN_OBSERVATIONS == 15

PROBATION_WEIGHT_CAP == 1000

\* PROBATION_THRESHOLD_ACCURACY = 0.40, in percent
PROBATION_THRESHOLD_ACCURACY == 40

Outcomes == {"BIG", "SMALL"}

Volatilities == {"VERY_LOW", "LOW", "MEDIUM", "HIGH", "UNKNOWN"}

\* the two versions of the engine in the repository: src/predictionLogic.js
\* and src/unnamed/part_000
Builds == {"v44.3.0", "v44.2.0"}

\* the values of marketEntropyState that contain "CHAOS"
ChaosStates == {"STABLE_CHAOS", "RISING_CHAOS", "SUBSIDING_CHAOS",
                "POTENTIAL_CHAOS_FROM_INSTABILITY"}

SourceNames == {"Transition", "StreakBreak-2", "Alt-BSBS->S"}

\* signalPerformance[source] of a source never seen
NoPerf == [total |-> Null]

\* the record both functions create for a source they see first; an absent
\* performanceByVolatility bucket reads as {correct: 0, total: 0}
NewPerf ==
    [correct |-> 0, total |-> 0, recentAccuracy |-> <<>>,
     sessionCorrect |-> 0, sessionTotal |-> 0,
     lastUpdatePeriod |-> Null, lastActivePeriod |-> Null,
     currentAdjustmentFactor |-> SCALE, alphaFactor |-> SCALE,
     longTermImportanceScore |-> SCALE \div 2,
     performanceByVolatility |-> [v \in Volatilities |-> [correct |-> 0, total |-> 0]],
     isOnProbation |-> FALSE]

-----------------------------------------------------------------------------
(* updateSignalPerformance, for one contributing signal *)

\* a variant that stores the raw adjustment factor
NoClampWeightFactor(x) == x

\* Math.min(Math.max(newAdjustmentFactor, MIN_WEIGHT_FACTOR), MAX_WEIGHT_FACTOR)
ClampWeightFactor(x) == Min(Max(x, MIN_WEIGHT_FACTOR), MAX_WEIGHT_FACTOR)

\* 1 + (accuracy - 0.5) * 3.5, accuracy = c / len
RawAdjustmentFactor(c, len) == SCALE + (35 * (2 * c - len) * SCALE) \div (20 * len)

\* ALPHA_UPDATE_RATE, times 1.75 below 35% accuracy, times 1.4 below 45%
AlphaLearningRate(c, len) ==
    IF c * 100 < 35 * len THEN (ALPHA_UPDATE_RATE * 175) \div 100
    ELSE IF c * 100 < 45 * len THEN (ALPHA_UPDATE_RATE * 14) \div 10
    ELSE ALPHA_UPDATE_RATE

\* the alpha factor moves towards the new adjustment factor, clamped
NextAlphaFactor(alpha, newAdj, rate) ==
    IF newAdj > alpha
    THEN Min(MAX_ALPHA_FACTOR, alpha + Mul(rate, newAdj - alpha))
    ELSE Max(MIN_ALPHA_FACTOR, alpha - Mul(rate, alpha - newAdj))

\* importanceDelta of one scored signal
ImportanceDelta(outcomeCorrect, isHighConf, isOverallCorrect, tough) ==
    LET d == IF outcomeCorrect
             THEN (IF isHighConf THEN 250 ELSE 100)
             ELSE (IF isHighConf /\ ~isOverallCorrect THEN 0 - 400 ELSE 0 - 150)
    IN IF tough THEN (d * 15) \div 10 ELSE d

\* a variant in which an update never changes the probation flag
KeepProbation(was, c, len) == was

\* a variant without the band: on probation exactly below the threshold
ThresholdProbation(was, c, len) ==
    len >= PROBATION_MIN_OBSERVATIONS /\ c * 100 < PROBATION_THRESHOLD_ACCURACY * len

\* the probation flag after an update with accuracy c / len
NextProbation(was, c, len) ==
    IF len >= PROBATION_MIN_OBSERVATIONS /\ c * 100 < PROBATION_THRESHOLD_ACCURACY * len
    THEN TRUE
    ELSE IF c * 100 > (PROBATION_THRESHOLD_ACCURACY + 15) * len THEN FALSE
    ELSE was

\* the block "Calculate and apply adjustment factor"
ApplyAdjustment(p) ==
    IF p.total >= MIN_OBSERVATIONS_FOR_ADJUST
       /\ 2 * Len(p.recentAccuracy) >= PERFORMANCE_WINDOW
    THEN LET len == Len(p.recentAccuracy)
             c == SumSeq(p.recentAccuracy)
             newAdj == ClampWeightFactor(RawAdjustmentFactor(c, len))
         IN [p EXCEPT !.currentAdjustmentFactor = newAdj,
                      !.isOnProbation = NextProbation(p.isOnProbation, c, len),
                      !.alphaFactor = NextAlphaFactor(p.alphaFactor, newAdj,
                                                      AlphaLearningRate(c, len))]
    ELSE p

\* a variant that never shifts
PushUnbounded(s, bit) == Append(s, bit)

\* recentAccuracy.push(outcomeCorrect), shift() past PERFORMANCE_WINDOW
PushRecent(s, bit) ==
    LET t == Append(s, bit)
    IN IF Len(t) > PERFORMANCE_WINDOW THEN Tail(t) ELSE t

\* isOverallCorrect: v44.3.0 compares the outcome with "BIG"/"SMALL" derived from
\* the confidence; v44.2.0 first passes the outcome, already "BIG" or "SMALL",
\* through getBigSmallFromNumber, which yields null
IsOverallCorrect(build, actualOutcome, lastFinalConfidence) ==
    IF build = "v44.2.0" THEN FALSE
    ELSE actualOutcome = (IF lastFinalConfidence > 5000 THEN "BIG" ELSE "SMALL")

\* the body of the forEach for one signal {source, prediction}; perf0 is
\* signalPerformance[source] before the call
UpdateOneSignal(build, perf0, prediction, actualOutcome, periodFull, vol, lastFinalConfidence, concentrationModeActive, marketEntropyState) ==
    LET p0 == IF perf0 = NoPerf THEN NewPerf ELSE perf0
        isHighConf == lastFinalConfidence > 7500
        isOverallCorrect == IsOverallCorrect(build, actualOutcome, lastFinalConfidence)
        outcomeCorrect == prediction = actualOutcome
        bit == IF outcomeCorrect THEN 1 ELSE 0
        tough == concentrationModeActive \/ marketEntropyState \in ChaosStates
        delta == ImportanceDelta(outcomeCorrect, isHighConf, isOverallCorrect, tough)
        bucket == p0.performanceByVolatility[vol]
        counted ==
            [p0 EXCEPT !.total = @ + 1,
                       !.sessionTotal = @ + 1,
                       !.correct = @ + bit,
                       !.sessionCorrect = @ + bit,
                       !.performanceByVolatility[vol] =
                            [correct |-> bucket.correct + bit, total |-> bucket.total + 1],
                       !.longTermImportanceScore = Min(SCALE, Max(0, @ + delta)),
                       !.recentAccuracy = PushRecent(@, bit)]
        p1 == IF p0.lastActivePeriod # periodFull \/ p0.total = 0
              THEN [ApplyAdjustment(counted) EXCEPT !.lastActivePeriod = periodFull]
              ELSE p0
    IN [p1 EXCEPT !.lastUpdatePeriod = periodFull]

\* updateSignalPerformance: signals is a sequence of {source, prediction};
\* actualOutcome is "BIG", "SMALL" or "" (a falsy value)
RECURSIVE updateSignalPerformance(_, _, _, _, _, _, _, _, _)
updateSignalPerformance(build, sp, signals, actualOutcome, periodFull, vol, lastFinalConfidence, concentrationModeActive, marketEntropyState) ==
    IF actualOutcome = "" \/ signals = <<>> THEN sp
    ELSE LET s == Head(signals)
             sp1 == [sp EXCEPT ![s.source] =
                        UpdateOneSignal(build, sp[s.source], s.prediction, actualOutcome,
                                        periodFull, vol, lastFinalConfidence,
                                        concentrationModeActive, marketEntropyState)]
         IN updateSignalPerformance(build, sp1, Tail(signals), actualOutcome, periodFull, vol,
                                    lastFinalConfidence, concentrationModeActive,
                                    marketEntropyState)

-----------------------------------------------------------------------------
(* getDynamicWeightAdjustment *)

\* the inactivity decay of currentAdjustmentFactor towards 1.0
Decay(f) ==
    IF f > SCALE THEN Max(SCALE, f - DECAY_RATE)
    ELSE IF f < SCALE THEN Min(SCALE, f + DECAY_RATE)
    ELSE f

\* the decay applied at every check in a new period, inactive or not
DecayAlways(p, currentPeriodFull) ==
    IF p.lastUpdatePeriod # currentPeriodFull
    THEN [p EXCEPT !.currentAdjustmentFactor = Decay(@), !.isOnProbation = FALSE,
                   !.lastUpdatePeriod = currentPeriodFull]
    ELSE p

\* lines "Apply decay for inactive signals"
ApplyDecay(p, currentPeriodFull) ==
    IF p.lastUpdatePeriod # currentPeriodFull
    THEN LET inactive == p.lastActivePeriod # Null
                         /\ p.lastActivePeriod # Undefined
                         /\ currentPeriodFull - p.lastActivePeriod
                                > INACTIVITY_PERIOD_FOR_DECAY
             q == IF inactive
                  THEN [p EXCEPT !.currentAdjustmentFactor = Decay(@),
                                 !.isOnProbation = FALSE]
                  ELSE p
         IN [q EXCEPT !.lastUpdatePeriod = currentPeriodFull]
    ELSE p

\* 1 + (correct/total - 0.5) * 1.30 within [0.55, 1.45], from 5 observations on
VolatilityAdjustment(p, vol) ==
    LET b == p.performanceByVolatility[vol]
    IN IF 2 * b.total >= MIN_OBSERVATIONS_FOR_ADJUST
       THEN Min(Max(SCALE + (13 * (2 * b.correct - b.total) * SCALE) \div (20 * b.total),
                    5500), 14500)
       ELSE SCALE

\* 1 + (sessionCorrect/sessionTotal - 0.5) * 1.5 within [0.6, 1.4], from 3 on
SessionAdjustment(p) ==
    IF p.sessionTotal >= 3
    THEN Min(Max(SCALE + (15 * (2 * p.sessionCorrect - p.sessionTotal) * SCALE)
                            \div (20 * p.sessionTotal),
                 6000), 14000)
    ELSE SCALE

\* finalAdjustmentFactor before the probation cap
CombinedFactor(p, vol) ==
    Mul(Mul(Mul(Mul(p.currentAdjustmentFactor, p.alphaFactor),
                VolatilityAdjustment(p, vol)),
            SessionAdjustment(p)),
        7000 + (p.longTermImportanceScore * 6) \div 10)

\* the probation cap on finalAdjustmentFactor
ProbationCap(p, f) == IF p.isOnProbation THEN Min(f, PROBATION_WEIGHT_CAP) ELSE f

\* Math.max(adjustedWeight, MIN_ABSOLUTE_WEIGHT)
FloorWeight(w) == Max(w, MIN_ABSOLUTE_WEIGHT)

\* getDynamicWeightAdjustment: the record after the call and the weight returned
getDynamicWeightAdjustment(perf0, baseWeight, currentPeriodFull, vol, sessionLen) ==
    IF perf0 = NoPerf
    THEN [perf |-> NewPerf, weight |-> FloorWeight(baseWeight)]
    ELSE LET p1 == IF sessionLen <= 1
                   THEN [perf0 EXCEPT !.sessionCorrect = 0, !.sessionTotal = 0]
                   ELSE perf0
             p2 == ApplyDecay(p1, currentPeriodFull)
             final == ProbationCap(p2, CombinedFactor(p2, vol))
         IN [perf |-> p2, weight |-> FloorWeight(Mul(baseWeight, final))]

-----------------------------------------------------------------------------
(* detectConceptDrift *)

\* Infinity: larger than any p + s, and Infinity + 3 * Infinity is representable
Infinity == SCALE * SCALE

\* the largest r in lo..hi with r * r <= x
RECURSIVE SqrtBetween(_, _, _)
SqrtBetween(x, lo, hi) ==
    IF lo >= hi THEN lo
    ELSE LET mid == (lo + hi + 1) \div 2
         IN IF mid * mid <= x THEN SqrtBetween(x, mid, hi)
            ELSE SqrtBetween(x, lo, mid - 1)

\* Math.sqrt of a fixed-point number in [0, 1]
Sqrt(x) == SqrtBetween(x * SCALE, 0, SCALE)

\* driftDetector as declared; p_i is not set until the first call, which
\* does not read it
FreshDetector ==
    [p_min |-> Infinity, s_min |-> Infinity, n |-> 0, p_i |-> 0,
     warning_level |-> 2, drift_level |-> 3]

\* a variant of the reset that leaves the detector as it is
KeepWindow(d) == d

\* the reset of the DRIFT branch: a new window
ResetWindow(d) == [d EXCEPT !.p_min = Infinity, !.s_min = Infinity, !.n = 1]

\* detectConceptDrift(isCorrect): the detector after the call and the result
detectConceptDrift(d, isCorrect) ==
    LET n == d.n + 1
        errorRate == IF isCorrect THEN 0 ELSE SCALE
        prev == IF n > 1 THEN d.p_i ELSE 0
        p_i == prev + (errorRate - prev) \div n
        s_i == Sqrt((p_i * (SCALE - p_i)) \div (SCALE * n))
        lower == p_i + s_i < d.p_min + d.s_min
        d1 == [d EXCEPT !.n = n, !.p_i = p_i,
                        !.p_min = IF lower THEN p_i ELSE @,
                        !.s_min = IF lower THEN s_i ELSE @]
    IN IF p_i + s_i > d1.p_min + d1.drift_level * d1.s_min
       THEN [detector |-> ResetWindow(d1), result |-> "DRIFT"]
       ELSE IF p_i + s_i > d1.p_min + d1.warning_level * d1.s_min
       THEN [detector |-> d1, result |-> "WARNING"]
       ELSE [detector |-> d1, result |-> "STABLE"]

-----------------------------------------------------------------------------
(* Market context, regime profiles, reflexive correction *)

\* getBigSmallFromNumber: 0-4 SMALL, 5-9 BIG, anything else null (here "")
getBigSmallFromNumber(n) ==
    IF n >= 0 /\ n <= 4 THEN "SMALL"
    ELSE IF n >= 5 /\ n <= 9 THEN "BIG"
    ELSE ""

\* JavaScript truthiness of a number that may be undefined
Truthy(n) == n # Undefined /\ n # Null /\ n # 0

\* the macroRegime label of getMarketRegimeAndTrendContext
MacroRegime(strength, volatility, isTransitioning) ==
    LET lowVol == volatility \in {"LOW", "VERY_LOW"}
        base ==
            IF strength = "STRONG"
            THEN (IF lowVol THEN "TREND_STRONG_LOW_VOL"
                  ELSE IF volatility = "MEDIUM" THEN "TREND_STRONG_MED_VOL"
                  ELSE "TREND_STRONG_HIGH_VOL")
            ELSE IF strength = "MODERATE"
            THEN (IF lowVol THEN "TREND_MOD_LOW_VOL"
                  ELSE IF volatility = "MEDIUM" THEN "TREND_MOD_MED_VOL"
                  ELSE "TREND_MOD_HIGH_VOL")
            ELSE IF strength = "RANGING"
            THEN (IF lowVol THEN "RANGE_LOW_VOL"
                  ELSE IF volatility = "MEDIUM" THEN "RANGE_MED_VOL"
                  ELSE "RANGE_HIGH_VOL")
            ELSE (IF volatility = "HIGH" THEN "WEAK_HIGH_VOL"
                  ELSE IF volatility = "MEDIUM" THEN "WEAK_MED_VOL"
                  ELSE "WEAK_LOW_VOL")
    IN IF isTransitioning THEN base \o "_TRANSITION" ELSE base

REGIME_ACCURACY_WINDOW == 35

\* REGIME_LEARNING_RATE_BASE = 0.028
REGIME_LEARNING_RATE_BASE == 280

CHOPPY_PERSISTENCE_THRESHOLD == 8

\* a key REGIME_SIGNAL_PROFILES does not hold
NoProfile == [totalPredictions |-> Null]

Profile(bwm, types, aggression) ==
    [baseWeightMultiplier |-> bwm, activeSignalTypes |-> types,
     contextualAggression |-> aggression,
     recentAccuracy |-> <<>>, totalPredictions |-> 0, correctPredictions |-> 0]

ProfileNames ==
    {"TREND_STRONG_LOW_VOL", "TREND_STRONG_MED_VOL", "TREND_STRONG_HIGH_VOL",
     "RANGE_LOW_VOL", "RANGE_MED_VOL", "RANGE_HIGH_VOL", "DEFAULT",
     "CUSTOM_AUROCHS_MODE"}

\* REGIME_SIGNAL_PROFILES as declared by a build
DeclaredProfiles(build) ==
    [r \in ProfileNames |->
        CASE r = "TREND_STRONG_LOW_VOL" ->
                Profile(13000, {"trend", "momentum", "ichimoku", "volBreak", "fusion",
                                "ml_standard"}, 13500)
          [] r = "TREND_STRONG_MED_VOL" ->
                Profile(12000, {"trend", "momentum", "ichimoku", "pattern", "fusion",
                                "ml_standard"}, 12500)
          [] r = "TREND_STRONG_HIGH_VOL" ->
                Profile(7000, {"trend", "ichimoku", "entropy", "volPersist", "fusion",
                               "ml_volatile"}, 7000)
          [] r = "RANGE_LOW_VOL" ->
                Profile(13000,
                        IF build = "v44.2.0"
                        THEN {"meanRev", "pattern", "volBreak", "stochastic", "bollinger"}
                        ELSE {"meanRev", "pattern", "stochastic", "bollinger"},
                        13000)
          [] r = "RANGE_MED_VOL" ->
                Profile(11500, {"meanRev", "pattern", "stochastic", "rsi", "bollinger"},
                        11500)
          [] r = "RANGE_HIGH_VOL" ->
                Profile(8500, {"meanRev", "entropy", "bollinger", "volPersist", "fusion",
                               "ml_volatile"}, 8500)
          [] r = "DEFAULT" -> Profile(9000, {"all"}, 9000)
          [] OTHER -> NoProfile]

\* the profile discoverAndAdaptRegimes creates
CustomAurochsProfile(build) ==
    Profile(14000,
            IF build = "v44.2.0"
            THEN {"pattern", "meanRev", "stochastic", "bollinger"}
            ELSE {"pattern", "meanRev", "stochastic", "bollinger", "uniquePattern"},
            15000)

\* aurochsState.choppyCount after discoverAndAdaptRegimes; Null is a payload
\* without aurochsState
NextChoppyCount(payloadCount, volatility, choppy) ==
    IF volatility = "VERY_LOW" /\ choppy
    THEN (IF payloadCount = Null THEN 0 ELSE payloadCount) + 1
    ELSE 0

\* discoverAndAdaptRegimes without the test for an existing profile
RecreateProfiles(build, profiles, choppyCount) ==
    IF choppyCount >= CHOPPY_PERSISTENCE_THRESHOLD
    THEN [profiles EXCEPT !["CUSTOM_AUROCHS_MODE"] = CustomAurochsProfile(build)]
    ELSE profiles

\* REGIME_SIGNAL_PROFILES after discoverAndAdaptRegimes
DiscoverProfiles(build, profiles, choppyCount) ==
    IF choppyCount >= CHOPPY_PERSISTENCE_THRESHOLD
       /\ profiles["CUSTOM_AUROCHS_MODE"] = NoProfile
    THEN [profiles EXCEPT !["CUSTOM_AUROCHS_MODE"] = CustomAurochsProfile(build)]
    ELSE profiles

Abs(x) == IF x < 0 THEN 0 - x ELSE x

\* currentLearningRate of updateRegimeProfilePerformance
RegimeLearningRate(globalAccuracy) ==
    LET factor == Max(6500, Min(15000, SCALE + (Abs(5000 - globalAccuracy) * 7) \div 10))
    IN Max(100, Min(700, Mul(REGIME_LEARNING_RATE_BASE, factor)))

\* a variant that adapts the multipliers without the limits
UnlimitedRegimeUpdate(profiles, regime, actualOutcome, predictedOutcome, globalAccuracy) ==
    IF regime \in ProfileNames /\ profiles[regime] # NoProfile /\ predictedOutcome # ""
    THEN LET pr == profiles[regime]
             bit == IF actualOutcome = predictedOutcome THEN 1 ELSE 0
             pushed == Append(pr.recentAccuracy, bit)
             recent == IF Len(pushed) > REGIME_ACCURACY_WINDOW THEN Tail(pushed) ELSE pushed
             rate == RegimeLearningRate(globalAccuracy)
             counted == [pr EXCEPT !.totalPredictions = @ + 1,
                                   !.correctPredictions = @ + bit,
                                   !.recentAccuracy = recent]
         IN [profiles EXCEPT ![regime] =
                IF 10 * Len(recent) < 7 * REGIME_ACCURACY_WINDOW THEN counted
                ELSE IF SumSeq(recent) * 100 > 62 * Len(recent)
                THEN [counted EXCEPT !.baseWeightMultiplier = @ + rate,
                                     !.contextualAggression = @ + rate \div 2]
                ELSE IF SumSeq(recent) * 100 < 38 * Len(recent)
                THEN [counted EXCEPT !.baseWeightMultiplier = @ - (rate * 13) \div 10,
                                     !.contextualAggression = @ - (rate * 7) \div 10]
                ELSE counted]
    ELSE profiles

\* updateRegimeProfilePerformance(regime, actualOutcome, predictedOutcome)
updateRegimeProfilePerformance(profiles, regime, actualOutcome, predictedOutcome, globalAccuracy) ==
    IF regime \in ProfileNames /\ profiles[regime] # NoProfile /\ predictedOutcome # ""
    THEN LET pr == profiles[regime]
             bit == IF actualOutcome = predictedOutcome THEN 1 ELSE 0
             pushed == Append(pr.recentAccuracy, bit)
             recent == IF Len(pushed) > REGIME_ACCURACY_WINDOW THEN Tail(pushed) ELSE pushed
             c == SumSeq(recent)
             len == Len(recent)
             rate == RegimeLearningRate(globalAccuracy)
             counted == [pr EXCEPT !.totalPredictions = @ + 1,
                                   !.correctPredictions = @ + bit,
                                   !.recentAccuracy = recent]
             adapted ==
                 IF 10 * len < 7 * REGIME_ACCURACY_WINDOW THEN counted
                 ELSE IF c * 100 > 62 * len
                 THEN [counted EXCEPT
                          !.baseWeightMultiplier = Min(19000, @ + rate),
                          !.contextualAggression = Min(18000, @ + rate \div 2)]
                 ELSE IF c * 100 < 38 * len
                 THEN [counted EXCEPT
                          !.baseWeightMultiplier = Max(2000, @ - (rate * 13) \div 10),
                          !.contextualAggression = Max(3000, @ - (rate * 7) \div 10)]
                 ELSE counted
         IN [profiles EXCEPT ![regime] = adapted]
    ELSE profiles

\* a countdown that ends with its first step
EndCountdown(active) == 0

\* reflexiveCorrectionActive--
Countdown(active) == active - 1

\* checkForAnomalousPerformance: the two counters after the call and its result
checkForAnomalousPerformance(losses, active, stats) ==
    IF active > 0
    THEN [losses |-> losses, active |-> Countdown(active), result |-> TRUE]
    ELSE LET scored == stats.lastFinalConfidence # Undefined /\ Truthy(stats.lastActualOutcome)
             correct == getBigSmallFromNumber(stats.lastActualOutcome) = stats.lastPredictedOutcome
             l1 == IF ~scored THEN losses
                   ELSE IF stats.lastConfidenceLevel = 3 /\ ~correct THEN losses + 1
                   ELSE 0
         IN IF l1 >= 2
            THEN [losses |-> 0, active |-> 5, result |-> TRUE]
            ELSE [losses |-> l1, active |-> 0, result |-> FALSE]

-----------------------------------------------------------------------------
(* Signal generators *)

\* the signalGenerators array of v44.3.0, in order
Roster443 ==
    <<"analyzeTransitions", "analyzeStreaks", "analyzeAlternatingPatterns", "analyzeRSI",
      "analyzeMACD", "analyzeBollingerBands", "analyzeIchimokuCloud", "analyzeStochastic",
      "analyzeVolatilityTrendFusion", "analyzeShortTermTrendPatterns",
      "analyzeLongTermTrendPatterns", "detectAnyPattern", "analyzeReversalPatterns",
      "analyzeAIPoweredLongData", "findUniquePatternsAndAnomalies",
      "classifyBigSmallPatterns", "analyzeRecentJackpotNumbers", "identifyHardPatterns">>

\* the signalGenerators array of v44.2.0 before the ML generators are pushed
Roster442 == SubSeq(Roster443, 1, 9)

\* with features for the ML models (52 parsable numbers), v44.2.0 pushes the ML
\* generators the regime profile asks for
MLGenerators(types, hasFeatures) ==
    (IF hasFeatures /\ "ml_standard" \in types
     THEN <<"analyzeMLModelSignal_Standard">> ELSE <<>>)
    \o (IF hasFeatures /\ "ml_volatile" \in types
        THEN <<"analyzeMLModelSignal_Volatile">> ELSE <<>>)

GeneratorNames ==
    {Roster443[i] : i \in DOMAIN Roster443}
        \cup {"analyzeMLModelSignal_Standard", "analyzeMLModelSignal_Volatile"}

\* the functions a build declares: src/predictionLogic.js has no analyzeRSI
DefinedFunctions(build) ==
    IF build = "v44.3.0" THEN GeneratorNames \ {"analyzeRSI"} ELSE GeneratorNames

\* gen.name of an entry of signalGenerators: each is an arrow function written
\* in the array literal, whose name is the empty string
GeneratorName(g) == ""

\* String.prototype.includes for a keyword; the empty string includes none
NameIncludes(name, keyword) == IF name = "" THEN FALSE ELSE name = keyword

\* the (keyword, signal type) pairs of the filter of v44.3.0
FilterRules ==
    {<<"Trend", "trend">>, <<"Momentum", "momentum">>, <<"MeanRev", "meanRev">>,
     <<"Pattern", "pattern">>, <<"MLModel", "ml_standard">>, <<"Volatile", "ml_volatile">>,
     <<"Ichimoku", "ichimoku">>, <<"MACD", "momentum">>, <<"Bollinger", "meanRev">>,
     <<"Stochastic", "momentum">>, <<"Fusion", "fusion">>,
     <<"VolatilityBreakout", "volBreak">>, <<"Entropy", "entropy">>,
     <<"VolPersist", "volPersist">>, <<"Reversal", "reversal">>,
     <<"AI_LongData", "ai_long_data">>, <<"UniquePattern", "uniquePattern">>,
     <<"BigSmallPattern", "bigSmallPattern">>, <<"JackpotNumbers", "jackpotNumbers">>,
     <<"HardPattern", "hardPattern">>}

\* the predicate of signalGenerators.filter
KeepsGenerator(types, g) ==
    \/ "all" \in types
    \/ \E rule \in FilterRules :
          NameIncludes(GeneratorName(g), rule[1]) /\ rule[2] \in types

\* the generators a cycle invokes, in order
ActiveGenerators(build, types, hasFeatures) ==
    IF build = "v44.2.0"
    THEN Roster442 \o MLGenerators(types, hasFeatures)
    ELSE SelectSeq(Roster443, LAMBDA g : KeepsGenerator(types, g))

\* a generator that returns null
NoSignal == [source |-> "", prediction |-> "", weight |-> 0]

\* the forEach that invokes the generators: calling a name the build does not
\* declare throws a ReferenceError, which ends the loop and the cycle; a result
\* is weighted by getDynamicWeightAdjustment and kept
RECURSIVE RunGenerators(_, _, _, _, _, _, _, _, _)
RunGenerators(build, gens, results, sp, signals, aggression, currentPeriodFull, vol, histLen) ==
    IF gens = <<>> THEN [sp |-> sp, signals |-> signals, threw |-> FALSE]
    ELSE IF Head(gens) \notin DefinedFunctions(build)
    THEN [sp |-> sp, signals |-> signals, threw |-> TRUE]
    ELSE LET r == results[Head(gens)]
         IN IF r = NoSignal
            THEN RunGenerators(build, Tail(gens), results, sp, signals, aggression,
                               currentPeriodFull, vol, histLen)
            ELSE LET q == getDynamicWeightAdjustment(sp[r.source],
                                                     Mul(r.weight, aggression),
                                                     currentPeriodFull, vol, histLen)
                     kept == [source |-> r.source, prediction |-> r.prediction,
                              adjustedWeight |-> q.weight]
                 IN RunGenerators(build, Tail(gens), results,
                                  [sp EXCEPT ![r.source] = q.perf],
                                  Append(signals, kept), aggression,
                                  currentPeriodFull, vol, histLen)

\* signals.filter(s => s?.prediction && s.adjustedWeight > MIN_ABSOLUTE_WEIGHT)
ValidSignals(signals) ==
    SelectSeq(signals, LAMBDA x : x.prediction # "" /\ x.adjustedWeight > MIN_ABSOLUTE_WEIGHT)

-----------------------------------------------------------------------------
(* ultraAIPredict *)

\* sharedStatsPayload = {}: every field absent
EmptyState ==
    [lastPredictedOutcome |-> "", lastActualOutcome |-> Undefined,
     lastFinalConfidence |-> Undefined, lastConfidenceLevel |-> Undefined,
     lastMacroRegime |-> "",
     lastPredictionSignals |-> [defined |-> FALSE, items |-> <<>>],
     lastConcentrationModeEngaged |-> FALSE, lastMarketEntropyState |-> "",
     lastVolatilityRegime |-> "", lastPeriodFull |-> Undefined,
     periodFull |-> Undefined, aurochsState |-> Null,
     longTermGlobalAccuracy |-> Undefined]

\* predictionOutput of the two forced-random paths
ForcedOutput(finalDecision, source) ==
    [threw |-> FALSE, finalDecision |-> finalDecision, finalConfidence |-> SCALE \div 2,
     confidenceLevel |-> 1, isForcedPrediction |-> TRUE, source |-> source]

\* a call that ends in an exception returns nothing
Thrown ==
    [threw |-> TRUE, finalDecision |-> "", finalConfidence |-> Undefined,
     confidenceLevel |-> Undefined, isForcedPrediction |-> FALSE, source |-> "ReferenceError"]

\* x || y for a string that may be absent
OrElse(x, y) == IF x = "" THEN y ELSE x

\* Object.assign(sharedStatsPayload, newState) of the fused path
AssignNewState(stats, out, macro, valid, concentration, entropy, vol, currentPeriodFull, choppyCount, longTermGlobalAccuracy) ==
    [stats EXCEPT
        !.lastPredictedOutcome = out.finalDecision,
        !.lastFinalConfidence = out.finalConfidence,
        !.lastConfidenceLevel = out.confidenceLevel,
        !.lastMacroRegime = macro,
        !.lastPredictionSignals =
            [defined |-> TRUE,
             items |-> [i \in DOMAIN valid |->
                          [source |-> valid[i].source, prediction |-> valid[i].prediction]]],
        !.lastConcentrationModeEngaged = concentration,
        !.lastMarketEntropyState = entropy,
        !.lastVolatilityRegime = vol,
        !.periodFull = currentPeriodFull,
        !.aurochsState = choppyCount,
        !.longTermGlobalAccuracy = longTermGlobalAccuracy]

\* REGIME_SIGNAL_PROFILES[currentMacroRegime] || REGIME_SIGNAL_PROFILES["DEFAULT"]
CurrentRegimeProfile(profiles, macro) ==
    IF macro \in ProfileNames /\ profiles[macro] # NoProfile
    THEN profiles[macro] ELSE profiles["DEFAULT"]

\* regimeContextualAggression
RegimeContextualAggression(profile, sessionAggression, isReflexive, driftState, concentration) ==
    LET aggression == Mul(profile.contextualAggression, sessionAggression)
    IN IF isReflexive \/ driftState = "DRIFT" THEN aggression \div 4
       ELSE IF concentration THEN (aggression * 6) \div 10
       ELSE aggression

\* the end of ultraAIPredict: the forced paths, the fusion, the new state
PredictFromSignals(E, stats, market, decision, fusion, currentPeriodFull, choppyCount, macro, concentration, longTermGlobalAccuracy, run) ==
    LET E2 == [E EXCEPT !.signalPerformance = run.sp]
        valid == ValidSignals(run.signals)
        fused == [threw |-> FALSE, finalDecision |-> decision,
                  finalConfidence |-> fusion.finalConfidence,
                  confidenceLevel |-> fusion.confidenceLevel,
                  isForcedPrediction |-> fusion.isForcedPrediction,
                  source |-> "SimulationFusion"]
    IN IF market.confirmed < 52
       THEN [engine |-> E, stats |-> stats, valid |-> <<>>,
             output |-> ForcedOutput(decision, "InsufficientHistory")]
       ELSE IF run.threw
       THEN [engine |-> E2, stats |-> stats, valid |-> valid, output |-> Thrown]
       ELSE IF valid = <<>>
       THEN [engine |-> E2, stats |-> stats, valid |-> <<>>,
             output |-> ForcedOutput(decision, "NoValidSignals")]
       ELSE [engine |-> E2,
             stats |-> AssignNewState(stats, fused, macro, valid, concentration,
                                      market.entropy, market.volatility,
                                      currentPeriodFull, choppyCount,
                                      longTermGlobalAccuracy),
             valid |-> valid, output |-> fused]

\* a lastPredictionSignals that is truthy and not an array: a string, a
\* number, an object
NotAnArray == [defined |-> TRUE, items |-> <<>>, notArray |-> TRUE]

IsArray(signals) == "notArray" \notin DOMAIN signals

\* the update block is entered and contributingSignals.forEach is not a
\* function: updateSignalPerformance throws a TypeError
UpdateThrows(stats) ==
    /\ stats.lastPredictionSignals.defined
    /\ Truthy(stats.lastActualOutcome)
    /\ ~IsArray(stats.lastPredictionSignals)

\* ultraAIPredict ended by that TypeError: the regimes, the anomaly counters
\* and the drift detector have been updated, nothing else
ThrownInUpdate(build, E, stats, choppyCount, anomaly, drift, globalAccuracy) ==
    [engine |-> [signalPerformance |-> E.signalPerformance,
                 driftDetector |-> drift.detector,
                 profiles |-> DiscoverProfiles(build, E.profiles, choppyCount),
                 losses |-> anomaly.losses, active |-> anomaly.active,
                 globalAccuracy |-> globalAccuracy],
     stats |-> IF stats.aurochsState # Null
               THEN [stats EXCEPT !.aurochsState = choppyCount] ELSE stats,
     valid |-> <<>>,
     output |-> [Thrown EXCEPT !.source = "TypeError"]]

\* the middle of ultraAIPredict, entered with the results of the context
\* analysis: the learning from the last period, then the generators (not
\* reached when the history is short)
PredictAfterContext(build, E, stats, market, results, decision, fusion, currentPeriodFull, choppyCount, anomaly, drift, globalAccuracy) ==
    LET \* aurochsState of the payload, when it has one, is updated in place
        stats1 == IF stats.aurochsState # Null
                  THEN [stats EXCEPT !.aurochsState = choppyCount] ELSE stats
        macro == IF choppyCount >= CHOPPY_PERSISTENCE_THRESHOLD THEN "CUSTOM_AUROCHS_MODE"
                 ELSE MacroRegime(market.strength, market.volatility, market.isTransitioning)
        longTermGlobalAccuracy ==
            IF Truthy(stats.longTermGlobalAccuracy) THEN stats.longTermGlobalAccuracy
            ELSE E.globalAccuracy
        concentration == \/ ~market.isStable
                         \/ anomaly.result
                         \/ market.entropy \in ChaosStates
                         \/ drift.result # "STABLE"
        actualBS == getBigSmallFromNumber(stats.lastActualOutcome)
        doUpdate == stats.lastPredictionSignals.defined /\ Truthy(stats.lastActualOutcome)
        sp1 == IF doUpdate
               THEN updateSignalPerformance(build, E.signalPerformance,
                        stats.lastPredictionSignals.items, actualBS, stats.lastPeriodFull,
                        OrElse(stats.lastVolatilityRegime, market.volatility),
                        stats.lastFinalConfidence, stats.lastConcentrationModeEngaged,
                        OrElse(stats.lastMarketEntropyState, "STABLE_MODERATE"))
               ELSE E.signalPerformance
        profiles1 == DiscoverProfiles(build, E.profiles, choppyCount)
        profiles2 == IF doUpdate /\ stats.lastPredictedOutcome # ""
                     THEN updateRegimeProfilePerformance(profiles1, stats.lastMacroRegime,
                              actualBS, stats.lastPredictedOutcome, globalAccuracy)
                     ELSE profiles1
        profile == CurrentRegimeProfile(profiles2, macro)
        gens == IF market.confirmed < 52 THEN <<>>
                ELSE ActiveGenerators(build, profile.activeSignalTypes, TRUE)
    IN PredictFromSignals(
           [signalPerformance |-> sp1, driftDetector |-> drift.detector,
            profiles |-> profiles2, losses |-> anomaly.losses,
            active |-> anomaly.active, globalAccuracy |-> globalAccuracy],
           stats1, market, decision, fusion, currentPeriodFull, choppyCount, macro,
           concentration, longTermGlobalAccuracy,
           RunGenerators(build, gens, results, sp1, <<>>,
                         RegimeContextualAggression(profile, market.sessionAggression,
                             anomaly.result, drift.result, concentration),
                         currentPeriodFull, market.volatility, market.historyLength))

\* ultraAIPredict(currentSharedHistory, sharedStatsPayload).  E is the module-level
\* state; market is what the context functions compute from the history; results
\* is what each generator returns for it; decision is Math.random's draw on a
\* forced path and the side the fusion favours otherwise; fusion stands for the
\* confidence the numeric fusion of the valid signals arrives at.  Returns the
\* module-level state and the payload after the call and the object returned.
ultraAIPredict(build, E, stats, market, results, decision, fusion, currentPeriodFull) ==
    IF UpdateThrows(stats)
    THEN ThrownInUpdate(build, E, stats,
             NextChoppyCount(stats.aurochsState, market.volatility, market.choppy),
             checkForAnomalousPerformance(E.losses, E.active, stats),
             detectConceptDrift(E.driftDetector,
                 getBigSmallFromNumber(stats.lastActualOutcome) = stats.lastPredictedOutcome),
             IF stats.longTermGlobalAccuracy # Undefined
             THEN stats.longTermGlobalAccuracy ELSE E.globalAccuracy)
    ELSE PredictAfterContext(build, E, stats, market, results, decision, fusion,
        currentPeriodFull,
        NextChoppyCount(stats.aurochsState, market.volatility, market.choppy),
        checkForAnomalousPerformance(E.losses, E.active, stats),
        IF stats.lastActualOutcome # Undefined
        THEN detectConceptDrift(E.driftDetector,
                 getBigSmallFromNumber(stats.lastActualOutcome) = stats.lastPredictedOutcome)
        ELSE [detector |-> E.driftDetector, result |-> "STABLE"],
        IF stats.longTermGlobalAccuracy # Undefined
        THEN stats.longTermGlobalAccuracy ELSE E.globalAccuracy)

-----------------------------------------------------------------------------
(* The tracker driven call by call, for one source.  A run resolves up to  *)
(* MaxUpdates periods; the source is right on a first stretch of them and   *)
(* wrong on the rest, or the reverse; the source is left inactive for more  *)
(* than INACTIVITY_PERIOD_FOR_DECAY periods at most once.                   *)

\* the state of ultraAIPredict where no cycle is run
CycleIdle ==
    /\ sharedStats = EmptyState
    /\ REGIME_SIGNAL_PROFILES = DeclaredProfiles("v44.3.0")
    /\ consecutiveHighConfLosses = 0
    /\ reflexiveCorrectionActive = 0
    /\ GLOBAL_LONG_TERM_ACCURACY_FOR_LEARNING_RATE = SCALE \div 2

MaxUpdates == 40

\* the source the tracker is driven for, and the prediction it always makes
PerfSource == "Transition"

\* base weights passed to getDynamicWeightAdjustment: 0.002, 0.05, 1.0
BaseWeights == {20, 500, SCALE}

\* how far the clock moves before a weight query
QueryGaps == {0, INACTIVITY_PERIOD_FOR_DECAY + 1}

\* lengths of the sessionHistory argument: ultraAIPredict passes the history,
\* which holds at least 52 records where it calls getDynamicWeightAdjustment
SessionLens == {52}

\* lastFinalConfidence of the scored predictions of a run: 0.60 or 0.80
PerfConfidences == {6000, 8000}

PerfInit ==
    /\ signalPerformance = [s \in SourceNames |-> NoPerf]
    /\ now = 1
    /\ ret = [op |-> "none"]
    /\ \E c \in PerfConfidences :
          env = [conf |-> c, updates |-> 0, last |-> "none",
                 flipped |-> FALSE, idled |-> FALSE]
    /\ driftDetector = FreshDetector
    /\ driftLog = <<>>
    /\ CycleIdle

\* updateSignalPerformance([{source, prediction: "BIG"}], actual, periodFull, ...)
\* for a new period, or once more for the period resolved last
PerfUpdate ==
    \E actual \in Outcomes, again \in BOOLEAN :
        LET periodFull == IF again THEN now ELSE now + 1
            before == signalPerformance[PerfSource]
            sp == updateSignalPerformance("v44.3.0", signalPerformance,
                      <<[source |-> PerfSource, prediction |-> "BIG"]>>,
                      actual, periodFull, "LOW", env.conf, FALSE, "ORDERLY")
            after == sp[PerfSource]
            counted == before = NoPerf \/ after.total # before.total
            flip == env.last \notin {"none", actual}
        IN /\ again \/ env.updates < MaxUpdates
           /\ flip => ~env.flipped
           /\ signalPerformance' = sp
           /\ now' = periodFull
           /\ ret' = [op |-> "update", counted |-> counted, again |-> again]
           /\ env' = [env EXCEPT !.updates = IF again THEN @ ELSE @ + 1,
                                 !.flipped = @ \/ flip,
                                 !.last = actual]
           /\ UNCHANGED <<driftVars, cycleVars>>

\* getDynamicWeightAdjustment(source, baseWeight, currentPeriodFull, vol, history)
PerfQuery ==
    \E w \in BaseWeights, gap \in QueryGaps, n \in SessionLens :
        LET r == getDynamicWeightAdjustment(signalPerformance[PerfSource], w,
                                            now + gap, "LOW", n)
        IN /\ gap > 0 => ~env.idled
           /\ signalPerformance' = [signalPerformance EXCEPT ![PerfSource] = r.perf]
           /\ now' = now + gap
           /\ ret' = [op |-> "query", baseWeight |-> w, weight |-> r.weight,
                      isOnProbation |-> r.perf.isOnProbation,
                      registered |-> signalPerformance[PerfSource] = NoPerf]
           /\ env' = [env EXCEPT !.idled = @ \/ gap > 0]
           /\ UNCHANGED <<driftVars, cycleVars>>

PerfNext == PerfUpdate \/ PerfQuery

SpecPerf == PerfInit /\ [][PerfNext]_vars

-----------------------------------------------------------------------------
(* The drift detector driven call by call from its declared state *)

MaxDriftCalls == 12

DriftInit ==
    /\ driftDetector = FreshDetector
    /\ driftLog = <<>>
    /\ signalPerformance = [s \in SourceNames |-> NoPerf]
    /\ now = 1
    /\ ret = [op |-> "none"]
    /\ env = [calls |-> 0]
    /\ CycleIdle

\* detectConceptDrift(isCorrect)
DriftFeed ==
    \E isCorrect \in BOOLEAN :
        LET r == detectConceptDrift(driftDetector, isCorrect)
        IN /\ Len(driftLog) < MaxDriftCalls
           /\ driftDetector' = r.detector
           /\ driftLog' = Append(driftLog, [isCorrect |-> isCorrect, result |-> r.result])
           /\ ret' = [op |-> "drift", result |-> r.result]
           /\ env' = [calls |-> env.calls + 1]
           /\ UNCHANGED <<signalPerformance, now, cycleVars>>

DriftNext == DriftFeed

SpecDrift == DriftInit /\ [][DriftNext]_vars

-----------------------------------------------------------------------------
(* The fusion of the valid signals: the part of ultraAIPredict after the    *)
(* NoValidSignals return. Scores are points times 100; the uncertainty      *)
(* score 80 is 8000.                                                        *)

\* the keywords of the source names that the category tests look for
SourceKeywords(source) ==
    IF source = "Transition" THEN {"Transition"}
    ELSE IF source = "StreakBreak-2" THEN {"StreakBreak"}
    ELSE IF source \in {"MACD_CrossB", "MACD_CrossS"} THEN {"MACD"}
    ELSE IF source = "Stochastic" THEN {"Stochastic"}
    ELSE IF source = "ML-Standard" THEN {"ML-"}
    ELSE {}

\* source.includes(k) for one of the keywords ks
IncludesAny(source, ks) == SourceKeywords(source) \cap ks # {}

\* getCategory of analyzePredictionConsensus
getCategory(source) ==
    IF IncludesAny(source, {"MACD", "Ichimoku", "Fusion", "Trend"}) THEN "trend"
    ELSE IF IncludesAny(source, {"Stochastic", "RSI"}) THEN "momentum"
    ELSE IF IncludesAny(source, {"Bollinger", "StreakBreak"}) THEN "meanRev"
    ELSE IF IncludesAny(source, {"Alt", "Pattern", "Transition", "BS_Pattern"}) THEN "pattern"
    ELSE IF IncludesAny(source, {"ML-", "AI_LongData"}) THEN "ml"
    ELSE IF IncludesAny(source, {"Jackpot"}) THEN "numerical"
    ELSE IF IncludesAny(source, {"Unique_", "HardPattern"}) THEN "unique"
    ELSE ""

ConsensusCategories ==
    {"trend", "momentum", "meanRev", "pattern", "ml", "numerical", "unique"}

\* the sum of the adjusted weights of the signals
RECURSIVE SumWeights(_)
SumWeights(signals) ==
    IF signals = <<>> THEN 0
    ELSE Head(signals).adjustedWeight + SumWeights(Tail(signals))

\* the sum of the adjusted weights of the signals that satisfy Keep
WeightOf(signals, Keep(_)) == SumWeights(SelectSeq(signals, Keep))

\* categories[category][prediction]
CategoryWeight(signals, category, prediction) ==
    WeightOf(signals, LAMBDA s : getCategory(s.source) = category
                                 /\ s.prediction = prediction)

\* the categories with weight above 0.001 that BIG wins, SMALL wins, and the
\* mixed ones
CategoryCounts(signals) ==
    LET live == {c \in ConsensusCategories :
                    CategoryWeight(signals, c, "BIG")
                    + CategoryWeight(signals, c, "SMALL") > 10}
        big == {c \in live : 2 * CategoryWeight(signals, c, "BIG")
                             > 3 * CategoryWeight(signals, c, "SMALL")}
        small == {c \in live \ big : 2 * CategoryWeight(signals, c, "SMALL")
                                     > 3 * CategoryWeight(signals, c, "BIG")}
    IN [big |-> Cardinality(big), small |-> Cardinality(small),
        total |-> Cardinality(live)]

\* the trend and momentum categories point to opposite sides
TrendMomentumConflict(signals) ==
    LET tB == CategoryWeight(signals, "trend", "BIG")
        tS == CategoryWeight(signals, "trend", "SMALL")
        mB == CategoryWeight(signals, "momentum", "BIG")
        mS == CategoryWeight(signals, "momentum", "SMALL")
    IN (tB > tS /\ mS > mB) \/ (tS > tB /\ mB > mS)

\* score and factor of the consensus, from the category counts
ConsensusOf(counts, penalised) ==
    LET score == IF counts.total > 0
                 THEN ((Max(counts.big, counts.small) - Min(counts.big, counts.small))
                       * SCALE) \div counts.total
                 ELSE SCALE \div 2
        factor == SCALE + score \div 2
        factor1 == IF penalised THEN (factor * 6) \div 10 ELSE factor
    IN [score |-> score, factor |-> Max(4000, Min(16000, factor1))]

analyzePredictionConsensus(signals, strength) ==
    IF Len(signals) < 4
    THEN [score |-> SCALE \div 2, factor |-> SCALE]
    ELSE ConsensusOf(CategoryCounts(signals),
                     strength = "STRONG" /\ TrendMomentumConflict(signals))

\* the number of signals that predict the outcome
CountOf(signals, prediction) ==
    Len(SelectSeq(signals, LAMBDA s : s.prediction = prediction))

\* the score of analyzeSignalConsistency
analyzeSignalConsistency(signals) ==
    IF Len(signals) < 3 THEN 7000
    ELSE (Max(CountOf(signals, "BIG"), CountOf(signals, "SMALL")) * SCALE)
         \div Len(signals)

\* the category a strong agreeing signal adds in analyzePathConfluenceStrength
PathCategory(source) ==
    IF IncludesAny(source, {"MACD", "Ichimoku", "Fusion", "Trend"}) THEN "trend"
    ELSE IF IncludesAny(source, {"Stochastic", "RSI", "Momentum"}) THEN "momentum"
    ELSE IF IncludesAny(source, {"Bollinger", "StreakBreak", "Reversal"}) THEN "meanRev"
    ELSE IF IncludesAny(source, {"Alt", "Pattern", "Transition", "BS_Pattern"}) THEN "pattern"
    ELSE IF IncludesAny(source, {"Vol", "Entropy"}) THEN "volatility"
    ELSE IF IncludesAny(source, {"ML-", "AI_LongData"}) THEN "probabilistic"
    ELSE IF IncludesAny(source, {"Jackpot", "Numerical"}) THEN "numerical"
    ELSE IF IncludesAny(source, {"Unique_", "HardPattern"}) THEN "anomaly"
    ELSE "other"

\* score and diversePaths, from the strong agreeing signals
ConfluenceOf(agreeing) ==
    IF Len(agreeing) < 2
    THEN [score |-> 0, diversePaths |-> Len(agreeing)]
    ELSE LET paths == Cardinality({PathCategory(agreeing[i].source) : i \in DOMAIN agreeing})
             veryStrong == Len(SelectSeq(agreeing, LAMBDA s : s.adjustedWeight > 1000))
             base == IF paths >= 4 THEN 2000
                     ELSE IF paths = 3 THEN 1200
                     ELSE IF paths = 2 THEN 500 ELSE 0
         IN [score |-> Min(base + Min(veryStrong * 200, 1000), 3000),
             diversePaths |-> paths]

analyzePathConfluenceStrength(signals, finalPrediction) ==
    ConfluenceOf(SelectSeq(signals, LAMBDA s : s.prediction = finalPrediction
                                               /\ s.adjustedWeight > MIN_ABSOLUTE_WEIGHT * 10))

\* calculateUncertaintyScore, in points times 100
calculateUncertaintyScore(ctx, consistency, diversePaths, globalAccuracy, isReflexiveCorrection, driftState) ==
    (IF isReflexiveCorrection THEN 8000 ELSE 0)
    + (IF driftState = "DRIFT" THEN 7000 ELSE IF driftState = "WARNING" THEN 4000 ELSE 0)
    + (IF ctx.isStable THEN 0 ELSE IF ctx.dominanceOrChoppiness THEN 5000 ELSE 4000)
    + (IF ctx.entropy = "RISING_CHAOS" THEN 4500
       ELSE IF ctx.entropy \in ChaosStates THEN 3500 ELSE 0)
    + (IF consistency < 6000 THEN ((SCALE - consistency) * 50) \div 100 ELSE 0)
    + (IF diversePaths < 3 THEN (3 - diversePaths) * 1500 ELSE 0)
    + (IF ctx.isTransitioning THEN 2500 ELSE 0)
    + (IF ctx.volatility = "HIGH" THEN 2000 ELSE 0)
    + (IF globalAccuracy < 4800 THEN ((4800 - globalAccuracy) * 150) \div 100 ELSE 0)

\* the probabilities bullTrend and bearTrend of analyzeAdvancedMarketRegime
analyzeAdvancedMarketRegime(ctx) ==
    IF ctx.strength = "STRONG" /\ ctx.volatility # "HIGH" /\ ctx.entropy = "ORDERLY"
    THEN IF ctx.directionBig THEN [bullTrend |-> 8000, bearTrend |-> 500]
         ELSE [bullTrend |-> 500, bearTrend |-> 8000]
    ELSE IF ctx.strength = "RANGING" /\ ctx.volatility = "HIGH" /\ ctx.entropy \in ChaosStates
    THEN [bullTrend |-> 1000, bearTrend |-> 1000]
    ELSE IF ctx.strength = "RANGING" /\ ctx.volatility = "VERY_LOW"
    THEN [bullTrend |-> 1000, bearTrend |-> 1000]
    ELSE [bullTrend |-> 2500, bearTrend |-> 2500]

\* bigScore and smallScore after the regime probabilities and the consensus
\* factor were applied
FusedScores(signals, probabilities, factor) ==
    [big |-> Mul(Mul(WeightOf(signals, LAMBDA s : s.prediction = "BIG"),
                     SCALE + probabilities.bullTrend - probabilities.bearTrend), factor),
     small |-> Mul(Mul(WeightOf(signals, LAMBDA s : s.prediction = "SMALL"),
                       SCALE + probabilities.bearTrend - probabilities.bullTrend),
                   2 * SCALE - factor)]

\* the combined factor of getRealTimeExternalData for the factors drawn
getRealTimeExternalData(weatherFactor, newsFactor, eventFactor, socialFactor) ==
    Mul(Mul(Mul(weatherFactor, newsFactor), eventFactor), socialFactor)

\* primeTimeSession?.confidence || 1.0 of getPrimeTimeSession(istHour)
PrimeTimeConfidence(istHour) ==
    IF istHour >= 10 /\ istHour < 12 THEN 11500
    ELSE IF istHour >= 13 /\ istHour < 14 THEN 11000
    ELSE IF istHour >= 15 /\ istHour < 16 THEN 11000
    ELSE IF istHour >= 17 /\ istHour < 20
    THEN (IF istHour = 19 THEN 12500 ELSE 12000)
    ELSE SCALE

\* a variant that always takes the coin flip
CoinDecision(scores, random) == IF random > SCALE \div 2 THEN "BIG" ELSE "SMALL"

\* finalDecision of the scores; random picks it when the total is zero
FusedDecision(scores, random) ==
    IF scores.big + scores.small > 0
    THEN (IF scores.big >= scores.small THEN "BIG" ELSE "SMALL")
    ELSE (IF random > SCALE \div 2 THEN "BIG" ELSE "SMALL")

\* 0.5 + (finalConfidence - 0.5) * primeTimeSession.confidence * realTimeData.factor
ScaledConfidence(base, sessionConfidence, externalFactor) ==
    SCALE \div 2 + Mul(Mul(base - SCALE \div 2, sessionConfidence), externalFactor)

\* finalConfidence before the uncertainty is applied
FusedConfidence(scores, sessionConfidence, externalFactor) ==
    ScaledConfidence(IF scores.big + scores.small > 0
                     THEN (Max(scores.big, scores.small) * SCALE)
                          \div (scores.big + scores.small)
                     ELSE SCALE \div 2,
                     sessionConfidence, externalFactor)

\* 0.5 + (finalConfidence - 0.5) * uncertaintyFactor
DampedConfidence(confidence, uncertainty) ==
    SCALE \div 2
    + Mul(confidence - SCALE \div 2, SCALE - Min(SCALE, (uncertainty * 10) \div 12))

\* the prediction quality score
QualityScore(consistency, confluenceScore, uncertainty) ==
    Max(100, Min(9900, SCALE \div 2 + ((consistency - SCALE \div 2) * 4) \div 10
                       + (confluenceScore * 12) \div 10 - uncertainty \div 5))

\* s.source.startsWith("ML-") || s.source.startsWith("AI_LongData")
IsMLSource(source) == source \in {"ML-Standard"}

\* the first ML-family signal, NoSignal if there is none
FirstMLSignal(signals) ==
    LET ml == SelectSeq(signals, LAMBDA s : IsMLSource(s.source))
    IN IF ml = <<>> THEN NoSignal ELSE Head(ml)

\* level 3 without asking for an ML-family signal
AgreesWithoutML(signals, decision) == TRUE

\* an ML-family signal is found and it predicts the decision
MLAgrees(signals, decision) ==
    /\ FirstMLSignal(signals) # NoSignal
    /\ FirstMLSignal(signals).prediction = decision

\* the level the weights, the consensus and the quality score give
LevelOf(agreeingWeight, disagreeingWeight, consensusScore, pqs, driftState, mlAgrees) ==
    LET ratioAbove(k) == agreeingWeight * 10 > k * (disagreeingWeight + 100)
        level2 == IF consensusScore > 6000 /\ ratioAbove(25) /\ pqs > 6000 THEN 2 ELSE 1
        level3 == IF consensusScore > 8000 /\ ratioAbove(40) /\ pqs > 7500
                     /\ driftState = "STABLE" /\ mlAgrees
                  THEN 3 ELSE level2
    IN IF driftState = "DRIFT" \/ pqs < 2500 THEN 1 ELSE level3

analyzeConfidenceModel(preliminaryDecision, signals, consensus, driftState, pqs) ==
    LevelOf(WeightOf(signals, LAMBDA s : s.prediction = preliminaryDecision),
            WeightOf(signals, LAMBDA s : s.prediction # "" /\ s.prediction # preliminaryDecision),
            consensus.score, pqs, driftState, MLAgrees(signals, preliminaryDecision))

\* uncertaintyThreshold, in points times 100
\* a variant with the one threshold of 95
LooseThreshold(isReflexiveCorrection, driftState) == 9500

UncertaintyThreshold(isReflexiveCorrection, driftState) ==
    IF isReflexiveCorrection \/ driftState = "DRIFT" THEN 6500 ELSE 9500

\* a forced prediction that keeps the computed confidence
KeepConfidence(confidence, random) == confidence

\* 0.5 + (Math.random() - 0.5) * 0.02
ForcedConfidence(confidence, random) ==
    SCALE \div 2 + ((random - SCALE \div 2) * 2) \div 100

\* the output of the fusion, with the uncertainty score, the threshold, the
\* quality score and the level of the confidence model that led to it
FusionOutput(decision, confidence, modelLevel, uncertainty, threshold, pqs, random) ==
    LET isForced == uncertainty >= threshold \/ pqs < 2000
    IN [threw |-> FALSE, finalDecision |-> decision,
        finalConfidence |-> IF isForced THEN ForcedConfidence(confidence, random)
                            ELSE confidence,
        confidenceLevel |-> IF isForced THEN 1 ELSE modelLevel,
        isForcedPrediction |-> isForced, source |-> "SimulationFusion",
        computedConfidence |-> confidence, modelLevel |-> modelLevel,
        uncertainty |-> uncertainty, threshold |-> threshold, pqs |-> pqs]

\* the fusion once consistency, confluence and uncertainty are known
FuseWith(signals, x, decision, confidence, consensus, consistency, confluence, uncertainty) ==
    FusionOutput(decision,
                 DampedConfidence(confidence, uncertainty),
                 analyzeConfidenceModel(decision, signals, consensus, x.driftState,
                                        QualityScore(consistency, confluence.score, uncertainty)),
                 uncertainty,
                 UncertaintyThreshold(x.isReflexiveCorrection, x.driftState),
                 QualityScore(consistency, confluence.score, uncertainty),
                 x.random)

\* the fusion once the decision is known
FuseDecided(signals, ctx, x, decision, confidence, consensus, consistency, confluence) ==
    FuseWith(signals, x, decision, confidence, consensus, consistency, confluence,
             calculateUncertaintyScore(ctx, consistency, confluence.diversePaths,
                                       x.globalAccuracy, x.isReflexiveCorrection,
                                       x.driftState))

\* the fusion once the scores are known
FuseScores(signals, ctx, x, scores, consensus) ==
    FuseDecided(signals, ctx, x, FusedDecision(scores, x.random),
                FusedConfidence(scores, x.sessionConfidence, x.externalFactor),
                consensus, analyzeSignalConsistency(signals),
                analyzePathConfluenceStrength(signals, FusedDecision(scores, x.random)))

\* lines 2189-2260 of ultraAIPredict: signals are the valid signals, ctx the
\* market context, x the cycle's other inputs (drift state, reflexive
\* correction, global accuracy, session, external data, Math.random())
Fuse(signals, ctx, x) ==
    FuseScores(signals, ctx, x,
               FusedScores(signals, analyzeAdvancedMarketRegime(ctx),
                           analyzePredictionConsensus(signals, ctx.strength).factor),
               analyzePredictionConsensus(signals, ctx.strength))

-----------------------------------------------------------------------------
(* The fusion applied to sets of valid signals, market contexts and the     *)
(* other inputs of a cycle                                                  *)

\* the generators whose signals are fused, with the source they name for a
\* prediction and the adjusted weights their signals come with
FusionSlots ==
    <<[BIG |-> "Transition", SMALL |-> "Transition", weights |-> {20, 364, 400}],
      [BIG |-> "StreakBreak-2", SMALL |-> "StreakBreak-2", weights |-> {364}],
      [BIG |-> "MACD_CrossB", SMALL |-> "MACD_CrossS", weights |-> {700}],
      [BIG |-> "Stochastic", SMALL |-> "Stochastic", weights |-> {600}],
      [BIG |-> "ML-Standard", SMALL |-> "ML-Standard", weights |-> {2400}]>>

\* the signals the slots give for a choice of predictions ("" for none) and
\* weights, in the order of the generators
RECURSIVE SlotSignals(_, _, _)
SlotSignals(i, predictions, weights) ==
    IF i > Len(FusionSlots) THEN <<>>
    ELSE (IF predictions[i] = "" THEN <<>>
          ELSE <<[source |-> FusionSlots[i][predictions[i]],
                  prediction |-> predictions[i],
                  adjustedWeight |-> weights[i]]>>)
         \o SlotSignals(i + 1, predictions, weights)

\* the weights the slots' signals come with, for a choice of predictions
SlotWeights(predictions) ==
    {w \in [DOMAIN FusionSlots -> {20, 364, 400, 600, 700, 2400}] :
        \A i \in DOMAIN FusionSlots :
            w[i] \in (IF predictions[i] = "" THEN {364} ELSE FusionSlots[i].weights)}

\* the sets of valid signals that are fused: at least one signal
FusionSignals ==
    UNION {{SlotSignals(1, p, w) : w \in SlotWeights(p)} :
              p \in [DOMAIN FusionSlots -> Outcomes \cup {""}]} \ {<<>>}

\* market contexts: a calm range, a strong orderly BIG trend, an unstable
\* market in rising chaos
FusionContexts ==
    {[strength |-> "RANGING", volatility |-> "LOW", directionBig |-> FALSE,
      isTransitioning |-> FALSE, isStable |-> TRUE, dominanceOrChoppiness |-> FALSE,
      entropy |-> "ORDERLY"],
     [strength |-> "STRONG", volatility |-> "MEDIUM", directionBig |-> TRUE,
      isTransitioning |-> FALSE, isStable |-> TRUE, dominanceOrChoppiness |-> FALSE,
      entropy |-> "ORDERLY"],
     [strength |-> "RANGING", volatility |-> "HIGH", directionBig |-> FALSE,
      isTransitioning |-> TRUE, isStable |-> FALSE, dominanceOrChoppiness |-> TRUE,
      entropy |-> "RISING_CHAOS"]}

\* drift state, reflexive correction and long-term global accuracy of a cycle
FusionEngineStates ==
    {<<"STABLE", FALSE, 5000>>, <<"WARNING", FALSE, 5000>>, <<"DRIFT", FALSE, 5000>>,
     <<"STABLE", TRUE, 5000>>, <<"STABLE", FALSE, 4000>>}

\* the IST hour and the factors getRealTimeExternalData draws for weather,
\* news, economic events and social trend
FusionClimates ==
    {<<3, SCALE, SCALE, SCALE, SCALE>>, <<19, SCALE, SCALE, SCALE, SCALE>>,
     <<19, 10100, 10200, SCALE, 10300>>, <<3, 9900, 9800, 8500, 9700>>}

\* values of Math.random(), of [0, 1)
Randoms == {0, SCALE - 1}

FusionInit ==
    /\ CycleIdle
    /\ signalPerformance = [s \in SourceNames |-> NoPerf]
    /\ driftDetector = FreshDetector
    /\ driftLog = <<>>
    /\ now = 1
    /\ ret = [op |-> "none"]
    /\ \E signals \in FusionSignals, ctx \in FusionContexts, e \in FusionEngineStates,
          c \in FusionClimates, random \in Randoms :
          env = [fused |-> FALSE, signals |-> signals, ctx |-> ctx,
                 x |-> [driftState |-> e[1], isReflexiveCorrection |-> e[2],
                        globalAccuracy |-> e[3],
                        sessionConfidence |-> PrimeTimeConfidence(c[1]),
                        externalFactor |-> getRealTimeExternalData(c[2], c[3], c[4], c[5]),
                        random |-> random]]

\* the fusion of ultraAIPredict applied to the inputs drawn
FusionRun ==
    /\ ~env.fused
    /\ ret' = [op |-> "fuse", output |-> Fuse(env.signals, env.ctx, env.x),
               categories |-> CategoryCounts(env.signals),
               factor |-> analyzePredictionConsensus(env.signals, env.ctx.strength).factor,
               unweighted |-> FusedScores(env.signals,
                                          analyzeAdvancedMarketRegime(env.ctx), SCALE),
               scores |-> FusedScores(env.signals, analyzeAdvancedMarketRegime(env.ctx),
                             analyzePredictionConsensus(env.signals,
                                                        env.ctx.strength).factor)]
    /\ env' = [env EXCEPT !.fused = TRUE]
    /\ UNCHANGED <<signalPerformance, now, driftVars, cycleVars>>

FusionNext == FusionRun

SpecFusion == FusionInit /\ [][FusionNext]_vars

-----------------------------------------------------------------------------
(* checkForAnomalousPerformance driven cycle by cycle from its declared     *)
(* counters, with the state object of each cycle as its argument            *)

MaxAnomalyCalls == 12

\* the state objects of a cycle: no prediction stored yet, or a prediction of
\* BIG at level 1 or 3 with the result that arrived (0: none the engine scores)
AnomalyStats ==
    {EmptyState} \cup
    {[EmptyState EXCEPT !.lastPredictedOutcome = "BIG",
                        !.lastFinalConfidence = 8000,
                        !.lastConfidenceLevel = level,
                        !.lastActualOutcome = number] :
        level \in {1, 3}, number \in {0, 3, 7}}

AnomalyInit ==
    /\ consecutiveHighConfLosses = 0
    /\ reflexiveCorrectionActive = 0
    /\ sharedStats = EmptyState
    /\ REGIME_SIGNAL_PROFILES = DeclaredProfiles("v44.3.0")
    /\ GLOBAL_LONG_TERM_ACCURACY_FOR_LEARNING_RATE = SCALE \div 2
    /\ signalPerformance = [s \in SourceNames |-> NoPerf]
    /\ driftDetector = FreshDetector
    /\ driftLog = <<>>
    /\ now = 1
    /\ ret = [op |-> "none"]
    /\ env = [calls |-> 0, sinceTrigger |-> Null]

\* checkForAnomalousPerformance(currentSharedStats); env.sinceTrigger counts the
\* calls since the one that set the countdown
AnomalyCheck ==
    \E stats \in AnomalyStats :
        LET r == checkForAnomalousPerformance(consecutiveHighConfLosses,
                                              reflexiveCorrectionActive, stats)
            triggered == reflexiveCorrectionActive = 0 /\ r.active > 0
        IN /\ env.calls < MaxAnomalyCalls
           /\ consecutiveHighConfLosses' = r.losses
           /\ reflexiveCorrectionActive' = r.active
           /\ sharedStats' = stats
           /\ ret' = [op |-> "anomaly", result |-> r.result]
           /\ env' = [calls |-> env.calls + 1,
                      sinceTrigger |-> IF triggered THEN 0
                                       ELSE IF env.sinceTrigger = Null THEN Null
                                       ELSE env.sinceTrigger + 1]
           /\ UNCHANGED <<signalPerformance, now, driftVars,
                          REGIME_SIGNAL_PROFILES,
                          GLOBAL_LONG_TERM_ACCURACY_FOR_LEARNING_RATE>>

AnomalyNext == AnomalyCheck

SpecAnomaly == AnomalyInit /\ [][AnomalyNext]_vars

-----------------------------------------------------------------------------
(* The engine driven cycle by cycle, as mainCycle of src/server.js drives   *)
(* it: a new game result arrives, is recorded as the outcome of the stored  *)
(* prediction, and ultraAIPredict is called on the history and the shared   *)
(* state object.                                                            *)

MaxCycles == 3

\* the numbers of the results that arrive
ActualNumbers == {0, 7}

\* what the context functions compute from a history: the count of confirmed
\* records, trend strength and volatility (getTrendContext), the moving-average
\* crossing (getMarketRegimeAndTrendContext), analyzeTrendStability's verdict
\* and whether its reason is choppiness, analyzeMarketEntropyState's state, and
\* the aggression of the prime-time session of the hour
Market(confirmed, strength, volatility, isTransitioning, isStable, choppy, entropy, sessionAggression) ==
    [confirmed |-> confirmed, historyLength |-> confirmed, strength |-> strength,
     volatility |-> volatility, isTransitioning |-> isTransitioning,
     isStable |-> isStable, choppy |-> choppy, entropy |-> entropy,
     sessionAggression |-> sessionAggression]

Markets ==
    {Market(10, "UNKNOWN", "UNKNOWN", FALSE, TRUE, FALSE, "UNCERTAIN_ENTROPY", SCALE),
     Market(60, "RANGING", "LOW", FALSE, TRUE, FALSE, "ORDERLY", SCALE),
     Market(60, "WEAK", "VERY_LOW", TRUE, TRUE, FALSE, "STABLE_CHAOS", 12500),
     Market(60, "RANGING", "VERY_LOW", FALSE, FALSE, TRUE,
            "POTENTIAL_CHAOS_FROM_INSTABILITY", SCALE)}

\* what the generators return for a history: nothing; a transition signal
\* (0.05 * 0.8) and a streak-break signal (0.045 * 0.81); a transition signal
Signal(source, prediction, weight) ==
    [source |-> source, prediction |-> prediction, weight |-> weight]

GeneratorResults ==
    {[g \in GeneratorNames |-> NoSignal],
     [g \in GeneratorNames |->
        IF g = "analyzeTransitions" THEN Signal("Transition", "BIG", 400)
        ELSE IF g = "analyzeStreaks" THEN Signal("StreakBreak-2", "SMALL", 364)
        ELSE NoSignal],
     [g \in GeneratorNames |->
        IF g = "analyzeTransitions" THEN Signal("Transition", "SMALL", 400)
        ELSE NoSignal]}

\* what the generators return for a history whose newest four outcomes are
\* SMALL, BIG, SMALL, BIG: the alternation signal (0.06 * 1.15) alone
AlternationResults ==
    [g \in GeneratorNames |->
        IF g = "analyzeAlternatingPatterns" THEN Signal("Alt-BSBS->S", "SMALL", 690)
        ELSE NoSignal]

\* what the generators return in a cycle of the server
CycleResults == GeneratorResults \cup {AlternationResults}

\* the keywords of the filter that the name of a function called by an entry
\* of signalGenerators contains
CalledFunctionKeywords(g) ==
    CASE g = "analyzeAlternatingPatterns" -> {"Pattern"}
      [] g = "analyzeMACD" -> {"MACD"}
      [] g = "analyzeBollingerBands" -> {"Bollinger"}
      [] g = "analyzeIchimokuCloud" -> {"Ichimoku"}
      [] g = "analyzeStochastic" -> {"Stochastic"}
      [] g = "analyzeVolatilityTrendFusion" -> {"Trend", "Fusion"}
      [] g = "analyzeShortTermTrendPatterns" -> {"Trend", "Pattern"}
      [] g = "analyzeLongTermTrendPatterns" -> {"Trend", "Pattern"}
      [] g = "detectAnyPattern" -> {"Pattern"}
      [] g = "analyzeReversalPatterns" -> {"Reversal", "Pattern"}
      [] g = "findUniquePatternsAndAnomalies" -> {"UniquePattern", "Pattern"}
      [] g = "classifyBigSmallPatterns" -> {"BigSmallPattern", "Pattern"}
      [] g = "analyzeRecentJackpotNumbers" -> {"JackpotNumbers"}
      [] g = "identifyHardPatterns" -> {"HardPattern", "Pattern"}
      [] g = "analyzeMLModelSignal_Standard" -> {"MLModel"}
      [] g = "analyzeMLModelSignal_Volatile" -> {"MLModel", "Volatile"}
      [] OTHER -> {}

\* the generators of the families an allowlist names that return a signal
ListedSignals(types, results) ==
    {g \in GeneratorNames :
        /\ results[g] # NoSignal
        /\ \E rule \in FilterRules :
              rule[1] \in CalledFunctionKeywords(g) /\ rule[2] \in types}

\* currentMacroRegime of a cycle
CycleMacroRegime(stats, market) ==
    IF NextChoppyCount(stats.aurochsState, market.volatility, market.choppy)
           >= CHOPPY_PERSISTENCE_THRESHOLD
    THEN "CUSTOM_AUROCHS_MODE"
    ELSE MacroRegime(market.strength, market.volatility, market.isTransitioning)

\* results of the fusion of the valid signals: a forced one, and the one Fuse
\* arrives at for a transition signal of weight 0.04 against a streak-break
\* signal of weight 0.0364 in a calm market (with these generators alone the
\* confidence model stays at level 1)
FusionOutcomes ==
    {[finalConfidence |-> 5050, confidenceLevel |-> 1, isForcedPrediction |-> TRUE],
     [finalConfidence |-> 5176, confidenceLevel |-> 1, isForcedPrediction |-> FALSE]}

\* the state object a run of v44.2.0 left in the store: a fused prediction
StoredState ==
    [EmptyState EXCEPT
        !.lastPredictedOutcome = "BIG", !.lastFinalConfidence = 5176,
        !.lastConfidenceLevel = 1, !.lastMacroRegime = "RANGE_LOW_VOL",
        !.lastPredictionSignals =
            [defined |-> TRUE,
             items |-> <<[source |-> "Transition", prediction |-> "BIG"],
                         [source |-> "StreakBreak-2", prediction |-> "SMALL"]>>],
        !.lastMarketEntropyState = "ORDERLY", !.lastVolatilityRegime = "LOW",
        !.periodFull = 0, !.aurochsState = 0, !.longTermGlobalAccuracy = SCALE \div 2]

\* the state object the server loads at start: none stored, or the one a run
\* left; src/predictionLogic.js stores none with signals
LoadedStates(build) ==
    IF build = "v44.2.0" THEN {EmptyState, StoredState} ELSE {EmptyState}

\* the sources of the signals the state object holds
StoredSources(stats) ==
    {stats.lastPredictionSignals.items[i].source :
        i \in DOMAIN stats.lastPredictionSignals.items}

\* the periodFull of the predictions a state object can hold: that of the
\* stored one, those of the cycles, or none
PredictionIds == (0 .. MaxCycles) \cup {Undefined}

CycleInit ==
    /\ signalPerformance = [s \in SourceNames |-> NoPerf]
    /\ driftDetector = FreshDetector
    /\ driftLog = <<>>
    /\ REGIME_SIGNAL_PROFILES \in {DeclaredProfiles(b) : b \in Builds}
    /\ consecutiveHighConfLosses = 0
    /\ reflexiveCorrectionActive = 0
    /\ GLOBAL_LONG_TERM_ACCURACY_FOR_LEARNING_RATE = SCALE \div 2
    /\ \E b \in Builds :
          /\ REGIME_SIGNAL_PROFILES = DeclaredProfiles(b)
          /\ sharedStats \in LoadedStates(b)
          /\ env = [build |-> b, cycles |-> 0, paths |-> {},
                    resolved |-> [s \in SourceNames |-> 0],
                    scoredPeriod |-> [s \in SourceNames |-> Null],
                    driftCalls |-> [p \in PredictionIds |-> 0],
                    trackerCalls |-> [p \in PredictionIds |-> 0]]
    /\ now = 1
    /\ ret = [op |-> "none"]

\* the number that arrived resolves a period source s contributed to: the state
\* object holds a prediction with a signal of s, made in a period (its
\* periodFull) other than the one last resolved for s, and the number is one
\* the engine scores (nonzero)
Resolves(stats, number, s, scoredPeriod) ==
    /\ stats.lastPredictedOutcome # ""
    /\ number # 0
    /\ s \in StoredSources(stats)
    /\ stats.periodFull # scoredPeriod

\* ultraAIPredict calls updateRegimeProfilePerformance for the prediction the
\* state holds
RegimeScored(stats) ==
    /\ stats.lastPredictionSignals.defined
    /\ Truthy(stats.lastActualOutcome)
    /\ stats.lastPredictedOutcome # ""

\* ultraAIPredict calls detectConceptDrift for the prediction the state holds
DriftInvoked(stats) == stats.lastActualOutcome # Undefined

\* ultraAIPredict calls updateSignalPerformance for the prediction the state holds
TrackerInvoked(stats) ==
    stats.lastPredictionSignals.defined /\ Truthy(stats.lastActualOutcome)

\* the state after ultraAIPredict returned r
Returned(r, stats0, market, number, results) ==
    /\ signalPerformance' = r.engine.signalPerformance
    /\ driftDetector' = r.engine.driftDetector
    /\ REGIME_SIGNAL_PROFILES' = r.engine.profiles
    /\ consecutiveHighConfLosses' = r.engine.losses
    /\ reflexiveCorrectionActive' = r.engine.active
    /\ GLOBAL_LONG_TERM_ACCURACY_FOR_LEARNING_RATE' = r.engine.globalAccuracy
    /\ sharedStats' = r.stats
    /\ now' = now + 1
    /\ ret' = [op |-> "cycle", output |-> r.output,
               confirmed |-> market.confirmed, valid |-> Len(r.valid),
               types |-> CurrentRegimeProfile(r.engine.profiles,
                             CycleMacroRegime(stats0, market)).activeSignalTypes,
               listed |-> ListedSignals(
                              CurrentRegimeProfile(r.engine.profiles,
                                  CycleMacroRegime(stats0, market)).activeSignalTypes,
                              results),
               scoredRegime |-> IF RegimeScored(stats0) THEN stats0.lastMacroRegime
                                ELSE ""]
    /\ env' = [env EXCEPT
                 !.cycles = @ + 1,
                 !.paths = @ \cup {r.output.source},
                 !.resolved =
                     [s \in SourceNames |->
                         IF Resolves(stats0, number, s, env.scoredPeriod[s])
                         THEN @[s] + 1 ELSE @[s]],
                 !.scoredPeriod =
                     [s \in SourceNames |->
                         IF Resolves(stats0, number, s, env.scoredPeriod[s])
                         THEN stats0.periodFull ELSE @[s]],
                 !.driftCalls =
                     IF DriftInvoked(stats0)
                     THEN [@ EXCEPT ![stats0.periodFull] = @ + 1] ELSE @,
                 !.trackerCalls =
                     IF TrackerInvoked(stats0)
                     THEN [@ EXCEPT ![stats0.periodFull] = @ + 1] ELSE @]
    /\ UNCHANGED driftLog

\* the state object after the server recorded the number that arrived: it is
\* recorded only when a prediction is stored
Recorded(stats, number) ==
    IF stats.lastPredictedOutcome # ""
    THEN [stats EXCEPT !.lastActualOutcome = number] ELSE stats

\* the module-level state of src/predictionLogic.js
Engine ==
    [signalPerformance |-> signalPerformance, driftDetector |-> driftDetector,
     profiles |-> REGIME_SIGNAL_PROFILES, losses |-> consecutiveHighConfLosses,
     active |-> reflexiveCorrectionActive,
     globalAccuracy |-> GLOBAL_LONG_TERM_ACCURACY_FOR_LEARNING_RATE]

\* mainCycle for a new game result
mainCycle ==
    \E number \in ActualNumbers, market \in Markets, results \in CycleResults,
       decision \in Outcomes, fusion \in FusionOutcomes :
        /\ env.cycles < MaxCycles
        /\ Returned(ultraAIPredict(env.build, Engine, Recorded(sharedStats, number),
                                   market, results, decision, fusion, now),
                    Recorded(sharedStats, number), market, number, results)

CycleNext == mainCycle

SpecCycle == CycleInit /\ [][CycleNext]_vars

-----------------------------------------------------------------------------
(* ultraAIPredict called once on a history of records of one shape          *)

\* the fields of a history record that the minimum-history check reads;
\* Undefined where the record has no such field
HistoryRecord(actual, actualNumber) == [actual |-> actual, actualNumber |-> actualNumber]

\* the record of a result n in a shape: "interface" is {period, actual};
\* "entry" is newEntry of mainCycle, {period, actual, actualNumber, status};
\* "server" is the game result of the API, which mainCycle stores and passes
\* on: {issueNumber, number, ...}
ShapedRecord(shape, n) ==
    IF shape = "interface" THEN HistoryRecord(n, Undefined)
    ELSE IF shape = "entry" THEN HistoryRecord(n, n)
    ELSE HistoryRecord(Undefined, Undefined)

HistoryShapes == {"interface", "entry", "server"}

\* the numbers of the results: all 7, or 3 and 7 in turn
HistoryDigits == {"sevens", "alternating"}

\* a history, newest first: pending records whose actual is null, then length
\* records of results
HistoryOf(shape, length, pending, digits) ==
    [i \in 1 .. pending |-> HistoryRecord(Null, Undefined)]
    \o [i \in 1 .. length |->
          ShapedRecord(shape, IF digits = "alternating" /\ i % 2 = 0 THEN 3 ELSE 7)]

\* the records with a result
ResolvedRecords(history) ==
    SelectSeq(history, LAMBDA p : p # HistoryRecord(Null, Undefined))

\* p && p.actual !== null && p.actualNumber !== undefined
IsConfirmed(p) == p.actual # Null /\ p.actualNumber # Undefined

\* confirmedHistory of ultraAIPredict
ConfirmedHistory(history) == SelectSeq(history, IsConfirmed)

\* the context of a history: its numbers are parsed from actualNumber or
\* actual; with neither field there is no number and the context is unknown
ContextOf(shape, history) ==
    IF shape = "server"
    THEN Market(Len(ConfirmedHistory(history)), "UNKNOWN", "UNKNOWN", FALSE, TRUE,
                FALSE, "UNCERTAIN_ENTROPY", SCALE)
    ELSE Market(Len(ConfirmedHistory(history)), "RANGING", "LOW", FALSE, TRUE,
                FALSE, "ORDERLY", SCALE)

HistoryLengths == {51, 52, 60}

HistoryInit ==
    /\ signalPerformance = [s \in SourceNames |-> NoPerf]
    /\ driftDetector = FreshDetector
    /\ driftLog = <<>>
    /\ consecutiveHighConfLosses = 0
    /\ reflexiveCorrectionActive = 0
    /\ GLOBAL_LONG_TERM_ACCURACY_FOR_LEARNING_RATE = SCALE \div 2
    /\ sharedStats = EmptyState
    /\ now = 1
    /\ ret = [op |-> "none"]
    /\ \E b \in Builds, shape \in HistoryShapes, length \in HistoryLengths,
          pending \in {0, 1}, digits \in HistoryDigits :
          /\ REGIME_SIGNAL_PROFILES = DeclaredProfiles(b)
          /\ env = [build |-> b, shape |-> shape, called |-> FALSE,
                    history |-> HistoryOf(shape, length, pending, digits)]

\* the state after ultraAIPredict returned r for the history
HistoryReturned(r, history) ==
    /\ signalPerformance' = r.engine.signalPerformance
    /\ driftDetector' = r.engine.driftDetector
    /\ REGIME_SIGNAL_PROFILES' = r.engine.profiles
    /\ consecutiveHighConfLosses' = r.engine.losses
    /\ reflexiveCorrectionActive' = r.engine.active
    /\ GLOBAL_LONG_TERM_ACCURACY_FOR_LEARNING_RATE' = r.engine.globalAccuracy
    /\ sharedStats' = r.stats
    /\ ret' = [op |-> "history", output |-> r.output,
               confirmed |-> Len(ConfirmedHistory(history)),
               resolved |-> Len(ResolvedRecords(history))]
    /\ env' = [env EXCEPT !.called = TRUE]
    /\ UNCHANGED <<now, driftLog>>

\* ultraAIPredict(history, {}) on a fresh engine
HistoryCycle ==
    \E results \in GeneratorResults, decision \in Outcomes, fusion \in FusionOutcomes :
        /\ ~env.called
        /\ HistoryReturned(ultraAIPredict(env.build, Engine, sharedStats,
                                          ContextOf(env.shape, env.history),
                                          results, decision, fusion, now),
                           env.history)

HistoryNext == HistoryCycle

SpecHistory == HistoryInit /\ [][HistoryNext]_vars

-----------------------------------------------------------------------------
(* The servers: mainCycle is started once by the listen callback and again  *)
(* by every tick of setInterval, whether or not an earlier execution has    *)
(* returned. An execution gives up control at each await. "firestore" is    *)
(* src/server.js lines 1-212, "file" is src/server.js lines 214-405,         *)
(* "collector" is src/unnamed/part_001 lines 205-419.                        *)

ServerVariants == {"firestore", "file", "collector"}

\* the executions of mainCycle that can be in flight together
Slots == {1, 2}

\* the period ids the API publishes, and the executions started, in a run
MaxPeriods == 2

MaxStarts == 4

\* the history the server passes in: the stored game results
ServerHistory(stored) == [i \in 1 .. Cardinality(stored) |-> ShapedRecord("server", 7)]

ServerInit ==
    /\ signalPerformance = [s \in SourceNames |-> NoPerf]
    /\ driftDetector = FreshDetector
    /\ driftLog = <<>>
    /\ consecutiveHighConfLosses = 0
    /\ reflexiveCorrectionActive = 0
    /\ GLOBAL_LONG_TERM_ACCURACY_FOR_LEARNING_RATE = SCALE \div 2
    /\ REGIME_SIGNAL_PROFILES = DeclaredProfiles("v44.3.0")
    /\ sharedStats = EmptyState
    /\ now = 1
    /\ ret = [op |-> "none"]
    /\ \E v \in ServerVariants :
          env = [build |-> "v44.3.0", variant |-> v, listening |-> FALSE,
                 loaded |-> FALSE, latest |-> 1, starts |-> 0,
                 pc |-> [i \in Slots |-> "idle"],
                 period |-> [i \in Slots |-> 0],
                 stored |-> {}, lastProcessedPeriodId |-> 0,
                 sets |-> [id \in 1 .. MaxPeriods |-> 0],
                 runs |-> [id \in 1 .. MaxPeriods |-> 0]]

\* the callback of app.listen: loadState() and mainCycle(); loadState of the
\* firestore server is async and is not awaited
Listen ==
    /\ ~env.listening
    /\ env' = [env EXCEPT !.listening = TRUE,
                          !.loaded = env.variant # "firestore",
                          !.starts = 1,
                          !.pc = [@ EXCEPT ![1] = "fetch"]]
    /\ ret' = [op |-> "listen"]
    /\ UNCHANGED <<signalPerformance, now, driftVars, cycleVars>>

\* the firestore server's loadState resolves: app.locals.sharedStats is set
LoadStateDone ==
    /\ env.listening /\ ~env.loaded
    /\ env' = [env EXCEPT !.loaded = TRUE]
    /\ sharedStats' = EmptyState
    /\ ret' = [op |-> "loadState"]
    /\ UNCHANGED <<signalPerformance, now, driftVars, REGIME_SIGNAL_PROFILES,
                   consecutiveHighConfLosses, reflexiveCorrectionActive,
                   GLOBAL_LONG_TERM_ACCURACY_FOR_LEARNING_RATE>>

\* a tick of setInterval(mainCycle, ...): a new execution begins its fetch
TimerFires ==
    \E i \in Slots :
        /\ env.listening /\ env.pc[i] = "idle" /\ env.starts < MaxStarts
        /\ env' = [env EXCEPT !.starts = @ + 1, !.pc = [@ EXCEPT ![i] = "fetch"]]
        /\ ret' = [op |-> "timer"]
        /\ UNCHANGED <<signalPerformance, now, driftVars, cycleVars>>

\* the API publishes the result of the next period
NewPeriod ==
    /\ env.latest < MaxPeriods
    /\ env' = [env EXCEPT !.latest = @ + 1]
    /\ ret' = [op |-> "period"]
    /\ UNCHANGED <<signalPerformance, now, driftVars, cycleVars>>

\* the state after ultraAIPredict returned r to execution i for period id
ServerPredicted(r, i, id, next) ==
    /\ signalPerformance' = r.engine.signalPerformance
    /\ driftDetector' = r.engine.driftDetector
    /\ REGIME_SIGNAL_PROFILES' = r.engine.profiles
    /\ consecutiveHighConfLosses' = r.engine.losses
    /\ reflexiveCorrectionActive' = r.engine.active
    /\ GLOBAL_LONG_TERM_ACCURACY_FOR_LEARNING_RATE' = r.engine.globalAccuracy
    /\ sharedStats' = r.stats
    /\ ret' = [op |-> "predict", period |-> id, output |-> r.output]
    /\ env' = [next EXCEPT !.runs = [@ EXCEPT ![id] = @ + 1]]
    /\ UNCHANGED <<now, driftLog>>

\* ultraAIPredict(history, sharedStats) as the server calls it for a result
ServerPredict(i, id, next, decision) ==
    ServerPredicted(ultraAIPredict(env.build, Engine, Recorded(sharedStats, 7),
                                   ContextOf("server", ServerHistory(next.stored)),
                                   CHOOSE g \in GeneratorResults : TRUE, decision,
                                   CHOOSE f \in FusionOutcomes : TRUE, id),
                    i, id, next)

\* the response arrives at the file server or the collector: the rest of
\* mainCycle runs without giving up control
RespondFile ==
    \E i \in Slots, decision \in Outcomes :
        LET id == env.latest
            fresh == id \notin env.stored
            done == [env EXCEPT !.pc = [@ EXCEPT ![i] = "idle"],
                                !.stored = @ \cup {id},
                                !.sets = [@ EXCEPT ![id] = IF fresh THEN @ + 1 ELSE @],
                                !.lastProcessedPeriodId =
                                    IF env.variant = "collector" THEN id ELSE @]
            predicts == IF env.variant = "collector"
                        THEN id # env.lastProcessedPeriodId ELSE fresh
        IN /\ env.variant # "firestore" /\ env.pc[i] = "fetch"
           /\ IF predicts
              THEN ServerPredict(i, id, done, decision)
              ELSE /\ env' = done
                   /\ ret' = [op |-> "skip"]
                   /\ UNCHANGED <<signalPerformance, now, driftVars, cycleVars>>

\* the response arrives at the firestore server: gameResultRef.get() is sent
Respond ==
    \E i \in Slots :
        /\ env.variant = "firestore" /\ env.pc[i] = "fetch"
        /\ env' = [env EXCEPT !.pc = [@ EXCEPT ![i] = "get"],
                              !.period = [@ EXCEPT ![i] = env.latest]]
        /\ ret' = [op |-> "respond"]
        /\ UNCHANGED <<signalPerformance, now, driftVars, cycleVars>>

\* gameResultRef.get() resolves: a document that exists ends the execution,
\* otherwise gameResultRef.set() is sent
GetDone ==
    \E i \in Slots :
        /\ env.pc[i] = "get"
        /\ env' = [env EXCEPT !.pc = [@ EXCEPT ![i] =
                       IF env.period[i] \in env.stored THEN "idle" ELSE "set"]]
        /\ ret' = [op |-> "get"]
        /\ UNCHANGED <<signalPerformance, now, driftVars, cycleVars>>

\* gameResultRef.set() resolves; the history query is sent
SetDone ==
    \E i \in Slots :
        /\ env.pc[i] = "set"
        /\ env' = [env EXCEPT !.pc = [@ EXCEPT ![i] = "query"],
                              !.stored = @ \cup {env.period[i]},
                              !.sets = [@ EXCEPT ![env.period[i]] = @ + 1]]
        /\ ret' = [op |-> "set"]
        /\ UNCHANGED <<signalPerformance, now, driftVars, cycleVars>>

\* the history query resolves: the outcome is recorded, ultraAIPredict runs
\* and saveState() is sent; while loadState has not resolved,
\* app.locals.sharedStats is undefined, reading it throws and the catch of
\* mainCycle ends the execution
QueryDone ==
    \E i \in Slots, decision \in Outcomes :
        /\ env.pc[i] = "query"
        /\ IF env.loaded
           THEN ServerPredict(i, env.period[i],
                              [env EXCEPT !.pc = [@ EXCEPT ![i] = "save"]], decision)
           ELSE /\ env' = [env EXCEPT !.pc = [@ EXCEPT ![i] = "idle"]]
                /\ ret' = [op |-> "failed"]
                /\ UNCHANGED <<signalPerformance, now, driftVars, cycleVars>>

\* saveState() resolves and the execution returns
SaveDone ==
    \E i \in Slots :
        /\ env.pc[i] = "save"
        /\ env' = [env EXCEPT !.pc = [@ EXCEPT ![i] = "idle"]]
        /\ ret' = [op |-> "save"]
        /\ UNCHANGED <<signalPerformance, now, driftVars, cycleVars>>

ServerNext ==
    \/ Listen \/ LoadStateDone \/ TimerFires \/ NewPeriod \/ RespondFile
    \/ Respond \/ GetDone \/ SetDone \/ QueryDone \/ SaveDone

SpecServer == ServerInit /\ [][ServerNext]_vars

-----------------------------------------------------------------------------
(* The file server started on a state file: loadState, then mainCycle for   *)
(* the results that arrive                                                  *)

MaxLoadedCycles == 3

\* the state file: none; one that JSON.parse rejects; the state a run left;
\* that state with a lastPredictionSignals that is not an array
StateFiles == {"absent", "unparsable", "stored", "notArray"}

\* what JSON.parse returns for a state file that parses
ParsedState(file) ==
    IF file = "stored" THEN StoredState
    ELSE [StoredState EXCEPT !.lastPredictionSignals = NotAnArray]

LoadInit ==
    /\ signalPerformance = [s \in SourceNames |-> NoPerf]
    /\ driftDetector = FreshDetector
    /\ driftLog = <<>>
    /\ consecutiveHighConfLosses = 0
    /\ reflexiveCorrectionActive = 0
    /\ GLOBAL_LONG_TERM_ACCURACY_FOR_LEARNING_RATE = SCALE \div 2
    /\ sharedStats = EmptyState
    /\ now = 1
    /\ ret = [op |-> "none"]
    /\ \E b \in Builds, file \in StateFiles :
          /\ REGIME_SIGNAL_PROFILES = DeclaredProfiles(b)
          /\ env = [build |-> b, file |-> file, loaded |-> FALSE, cycles |-> 0,
                    threw |-> 0]

\* loadState(): sharedStats stays {} without a file and when JSON.parse throws
loadState ==
    /\ ~env.loaded
    /\ sharedStats' = IF env.file \in {"absent", "unparsable"} THEN EmptyState
                      ELSE ParsedState(env.file)
    /\ env' = [env EXCEPT !.loaded = TRUE]
    /\ ret' = [op |-> "loadState"]
    /\ UNCHANGED <<signalPerformance, now, driftVars, REGIME_SIGNAL_PROFILES,
                   consecutiveHighConfLosses, reflexiveCorrectionActive,
                   GLOBAL_LONG_TERM_ACCURACY_FOR_LEARNING_RATE>>

\* the state after ultraAIPredict returned r, or threw into the catch of
\* mainCycle
LoadedReturned(r) ==
    /\ signalPerformance' = r.engine.signalPerformance
    /\ driftDetector' = r.engine.driftDetector
    /\ REGIME_SIGNAL_PROFILES' = r.engine.profiles
    /\ consecutiveHighConfLosses' = r.engine.losses
    /\ reflexiveCorrectionActive' = r.engine.active
    /\ GLOBAL_LONG_TERM_ACCURACY_FOR_LEARNING_RATE' = r.engine.globalAccuracy
    /\ sharedStats' = r.stats
    /\ now' = now + 1
    /\ ret' = [op |-> "loadedCycle", output |-> r.output]
    /\ env' = [env EXCEPT !.cycles = @ + 1,
                          !.threw = IF r.output.threw THEN @ + 1 ELSE @]
    /\ UNCHANGED driftLog

\* mainCycle of the file server for a new game result
LoadedCycle ==
    \E number \in ActualNumbers, decision \in Outcomes :
        /\ env.loaded /\ env.cycles < MaxLoadedCycles
        /\ LoadedReturned(ultraAIPredict(env.build, Engine, Recorded(sharedStats, number),
                              ContextOf("server", ServerHistory(1 .. now)),
                              CHOOSE g \in GeneratorResults : TRUE, decision,
                              CHOOSE f \in FusionOutcomes : TRUE, now))

LoadNext == loadState \/ LoadedCycle

SpecLoad == LoadInit /\ [][LoadNext]_vars

-----------------------------------------------------------------------------
(* getBigSmallFromNumber applied to numbers, null, undefined and strings    *)

MaxChars == 3

\* the characters of the strings passed in
Chars == {"3", "5", "a", " ", "-"}

Digits == {"3", "5"}

\* the value of a digit character
DigitValue(c) == IF c = "3" THEN 3 ELSE 5

\* the string without its leading white space
RECURSIVE TrimStart(_)
TrimStart(chars) ==
    IF chars # <<>> /\ Head(chars) = " " THEN TrimStart(Tail(chars)) ELSE chars

\* the number of the longest prefix of digits, continuing from acc
RECURSIVE DigitPrefix(_, _)
DigitPrefix(chars, acc) ==
    IF chars # <<>> /\ Head(chars) \in Digits
    THEN DigitPrefix(Tail(chars), acc * 10 + DigitValue(Head(chars)))
    ELSE acc

\* parseInt of the digits that follow the sign; [nan, value]
ParseUnsigned(chars) ==
    IF chars = <<>> \/ Head(chars) \notin Digits
    THEN [nan |-> TRUE, value |-> 0]
    ELSE [nan |-> FALSE, value |-> DigitPrefix(chars, 0)]

\* parseInt of a string: white space is skipped, a sign is read, then the
\* longest prefix of digits; what follows the digits is ignored
parseInt(chars) ==
    LET t == TrimStart(chars)
        negative == t # <<>> /\ Head(t) = "-"
        u == ParseUnsigned(IF negative THEN Tail(t) ELSE t)
    IN IF u.nan THEN [nan |-> TRUE, value |-> 0]
       ELSE [nan |-> FALSE, value |-> IF negative THEN 0 - u.value ELSE u.value]

\* getBigSmallFromNumber of a string
getBigSmallFromString(chars) ==
    IF parseInt(chars).nan THEN "" ELSE getBigSmallFromNumber(parseInt(chars).value)

\* the values passed in: integers, null, undefined, strings
ClassifyInputs ==
    {[type |-> "number", number |-> n, chars |-> <<>>] : n \in 0 .. 12}
    \cup {[type |-> "null", number |-> Null, chars |-> <<>>],
          [type |-> "undefined", number |-> Undefined, chars |-> <<>>]}
    \cup {[type |-> "string", number |-> 0, chars |-> c] :
             c \in UNION {[1 .. n -> Chars] : n \in 0 .. MaxChars}}

ClassifyInit ==
    /\ CycleIdle
    /\ signalPerformance = [s \in SourceNames |-> NoPerf]
    /\ driftDetector = FreshDetector
    /\ driftLog = <<>>
    /\ now = 1
    /\ ret = [op |-> "none"]
    /\ \E v \in ClassifyInputs : env = [input |-> v, called |-> FALSE]

\* getBigSmallFromNumber(number)
Classify ==
    /\ ~env.called
    /\ ret' = [op |-> "classify",
               result |-> IF env.input.type = "string"
                          THEN getBigSmallFromString(env.input.chars)
                          ELSE getBigSmallFromNumber(env.input.number)]
    /\ env' = [env EXCEPT !.called = TRUE]
    /\ UNCHANGED <<signalPerformance, now, driftVars, cycleVars>>

ClassifyNext == Classify

SpecClassify == ClassifyInit /\ [][ClassifyNext]_vars

-----------------------------------------------------------------------------
(* Trend stability, market entropy state and streaks of a history *)

\* a history record: the fields the classifiers read; Undefined where the
\* record has no such field, "" where it has no status
StatusRecord(actual, actualNumber, status) ==
    [actual |-> actual, actualNumber |-> actualNumber, status |-> status]

\* s.slice(0, n)
Take(s, n) == SubSeq(s, 1, Min(n, Len(s)))

\* s.slice(from, from + n), from counted from zero
Slice(s, from, n) == SubSeq(s, Min(from, Len(s)) + 1, Min(from + n, Len(s)))

\* s.map(p => getBigSmallFromNumber(p.actual))
OutcomesOf(s) == [i \in DOMAIN s |-> getBigSmallFromNumber(s[i].actual)]

\* parseInt(p.actualNumber || p.actual): an absent or zero actualNumber gives
\* way to actual; NaN is Undefined
NumberOf(p) ==
    IF p.actualNumber \notin {Undefined, Null, 0} THEN p.actualNumber
    ELSE IF p.actual = Null THEN Undefined
    ELSE p.actual

\* s.map(p => parseInt(p.actualNumber || p.actual)).filter(n => !isNaN(n))
NumbersOf(s) == SelectSeq([i \in DOMAIN s |-> NumberOf(s[i])], LAMBDA n : n # Undefined)

\* how many elements of s are v
Occurrences(s, v) == Len(SelectSeq(s, LAMBDA x : x = v))

\* the unit of the binary logarithm
LogUnit == 16384

\* the bits of the binary logarithm after the point are found by squaring
LogBits == 14

\* the fraction of log2(y / LogUnit) for LogUnit <= y < 2 * LogUnit
RECURSIVE Log2Fraction(_, _, _)
Log2Fraction(y, bit, bits) ==
    IF bits = 0 THEN 0
    ELSE LET squared == (y * y) \div LogUnit
         IN IF squared >= 2 * LogUnit
            THEN bit + Log2Fraction(squared \div 2, bit \div 2, bits - 1)
            ELSE Log2Fraction(squared, bit \div 2, bits - 1)

\* Math.log2(y / LogUnit) in LogUnit units, for y >= LogUnit
RECURSIVE Log2(_)
Log2(y) ==
    IF y >= 2 * LogUnit THEN LogUnit + Log2(y \div 2)
    ELSE Log2Fraction(y, LogUnit \div 2, LogBits)

\* -Math.log2(p) alone, without the weight p
SurpriseTerm(count, total) ==
    IF count = 0 THEN 0 ELSE Log2((total * LogUnit) \div count)

\* -p * Math.log2(p) for p = count / total, in LogUnit units
EntropyTerm(count, total) ==
    IF count = 0 THEN 0
    ELSE (count * Log2((total * LogUnit) \div count)) \div total

\* calculateEntropyForSignal(outcomes, windowSize); Null for null
calculateEntropyForSignal(outcomes, windowSize) ==
    IF Len(outcomes) < windowSize THEN Null
    ELSE LET window == Take(outcomes, windowSize)
             big == Occurrences(window, "BIG")
             small == Occurrences(window, "SMALL")
         IN IF big + small = 0 THEN SCALE
            ELSE ((EntropyTerm(big, big + small) + EntropyTerm(small, big + small))
                  * SCALE) \div LogUnit

\* the squares of the numbers
Squares(data) == [i \in DOMAIN data |-> data[i] * data[i]]

\* calculateStdDev(data, period): the variance as the fraction num / den, whose
\* root the function returns; num is Null where the function returns null
calculateStdDev(data, period) ==
    IF Len(data) < period \/ period <= 0 \/ Len(Take(data, period)) < 2
    THEN [num |-> Null, den |-> 1]
    ELSE LET relevantData == Take(data, period)
             n == Len(relevantData)
         IN [num |-> n * SumSeq(Squares(relevantData))
                     - SumSeq(relevantData) * SumSeq(relevantData),
             den |-> n * n]

\* stdDev !== null && stdDev > tenths / 10
StdDevAbove(stdDev, tenths) ==
    stdDev.num # Null /\ 100 * stdDev.num > tenths * tenths * stdDev.den

\* stdDev !== null && stdDev < tenths / 10
StdDevBelow(stdDev, tenths) ==
    stdDev.num # Null /\ 100 * stdDev.num < tenths * tenths * stdDev.den

\* a && b && a > b * tenths / 10 (a zero or null deviation is falsy)
StdDevAboveRatio(a, b, tenths) ==
    /\ a.num # Null /\ a.num # 0 /\ b.num # Null /\ b.num # 0
    /\ 100 * a.num * b.den > tenths * tenths * b.num * a.den

\* a && b && a < b * tenths / 10
StdDevBelowRatio(a, b, tenths) ==
    /\ a.num # Null /\ a.num # 0 /\ b.num # Null /\ b.num # 0
    /\ 100 * a.num * b.den < tenths * tenths * b.num * a.den

\* what analyzeTrendStability returns
Stability(isStable, reason, dominance) ==
    [isStable |-> isStable, reason |-> reason, dominance |-> dominance]

\* the results the stability check counts: those of a prediction scored a win
\* or a loss
IsScored(p) ==
    (p.status = "Win" \/ p.status = "Loss") /\ p.actual # Undefined /\ p.actual # Null

\* the steps of recentResults from one class to the other
Alternations(recentResults) ==
    Cardinality({i \in 1 .. Len(recentResults) - 1 : recentResults[i] # recentResults[i + 1]})

\* analyzeTrendStability after the dominance checks
StabilityOfMixed(confirmedHistory, recentResults, entropy) ==
    IF entropy # Null /\ entropy < 4500
    THEN Stability(FALSE, "Unstable: Very Low Entropy (Highly Predictable/Stuck)", "NONE")
    ELSE IF /\ Len(NumbersOf(Take(confirmedHistory, 15))) >= 10
            /\ StdDevAbove(calculateStdDev(NumbersOf(Take(confirmedHistory, 15)),
                                           Len(NumbersOf(Take(confirmedHistory, 15)))), 33)
    THEN Stability(FALSE, "Unstable: High Numerical Volatility", "NONE")
    ELSE IF 100 * Alternations(recentResults) > 75 * Len(recentResults)
    THEN Stability(FALSE, "Unstable: Excessive Choppiness", "NONE")
    ELSE Stability(TRUE, "Trend appears stable.", "NONE")

\* analyzeTrendStability once the results of the last 20 scored records are known
StabilityOfRecent(confirmedHistory, recentResults) ==
    IF Len(recentResults) < 18
    THEN Stability(TRUE, "Not enough valid B/S for stability.", "NONE")
    ELSE IF 100 * Occurrences(recentResults, "BIG") >= 80 * Len(recentResults)
    THEN Stability(FALSE, "Unstable: Extreme Outcome Dominance", "BIG_DOMINANCE")
    ELSE IF 100 * Occurrences(recentResults, "SMALL") >= 80 * Len(recentResults)
    THEN Stability(FALSE, "Unstable: Extreme Outcome Dominance", "SMALL_DOMINANCE")
    ELSE StabilityOfMixed(confirmedHistory, recentResults,
                          calculateEntropyForSignal(recentResults, Len(recentResults)))

\* analyzeTrendStability once the scored records are known
StabilityOfConfirmed(confirmedHistory) ==
    IF Len(confirmedHistory) < 20
    THEN Stability(TRUE, "Not enough confirmed results.", "NONE")
    ELSE StabilityOfRecent(confirmedHistory,
                           SelectSeq(OutcomesOf(Take(confirmedHistory, 20)),
                                     LAMBDA r : r # ""))

\* analyzeTrendStability(history)
analyzeTrendStability(history) ==
    IF Len(history) < 25
    THEN Stability(TRUE, "Not enough data for stability check.", "NONE")
    ELSE StabilityOfConfirmed(SelectSeq(history, IsScored))

ENTROPY_WINDOW_SHORT == 10

ENTROPY_WINDOW_LONG == 25

\* 1 + VOL_CHANGE_THRESHOLD and 1 - VOL_CHANGE_THRESHOLD, in tenths
VolatilityRise == 13

VolatilityFall == 7

\* the state of analyzeMarketEntropyState before the stability override
EntropyStateOf(entropyShort, entropyLong, shortTermVolatility, prevShortTermVolatility) ==
    IF /\ entropyShort < 5000 /\ entropyLong < 6000
       /\ StdDevBelow(shortTermVolatility, 15)
    THEN "ORDERLY"
    ELSE IF entropyShort > 9500 /\ entropyLong > 9000
    THEN IF /\ StdDevAboveRatio(shortTermVolatility, prevShortTermVolatility, VolatilityRise)
            /\ StdDevAbove(shortTermVolatility, 25)
         THEN "RISING_CHAOS"
         ELSE "STABLE_CHAOS"
    ELSE IF /\ StdDevAboveRatio(shortTermVolatility, prevShortTermVolatility, VolatilityRise)
            /\ entropyShort > 8500
            /\ StdDevAbove(shortTermVolatility, 20)
    THEN "RISING_CHAOS"
    ELSE IF /\ StdDevBelowRatio(shortTermVolatility, prevShortTermVolatility, VolatilityFall)
            /\ entropyLong > 8500
            /\ entropyShort < 8000
    THEN "SUBSIDING_CHAOS"
    ELSE "STABLE_MODERATE"

\* the volatility of a window of numbers: null with fewer than 8 of them
WindowVolatility(numbers) ==
    IF 10 * Len(numbers) >= ENTROPY_WINDOW_SHORT * 8
    THEN calculateStdDev(numbers, Len(numbers))
    ELSE [num |-> Null, den |-> 1]

\* analyzeMarketEntropyState without the stability override
KeptState(state, stability) == state

\* the stability override of analyzeMarketEntropyState
OverriddenState(state, stability) ==
    IF ~stability.isStable /\ state \in {"ORDERLY", "STABLE_MODERATE"}
    THEN "POTENTIAL_CHAOS_FROM_INSTABILITY"
    ELSE state

\* analyzeMarketEntropyState once the two entropies are known
EntropyStateWith(history, stability, entropyShort, entropyLong) ==
    IF entropyShort = Null \/ entropyLong = Null THEN "UNCERTAIN_ENTROPY"
    ELSE OverriddenState(
             EntropyStateOf(entropyShort, entropyLong,
                 WindowVolatility(NumbersOf(Take(history, ENTROPY_WINDOW_SHORT))),
                 WindowVolatility(NumbersOf(Slice(history, ENTROPY_WINDOW_SHORT,
                                                  ENTROPY_WINDOW_SHORT)))),
             stability)

\* the state of analyzeMarketEntropyState(history, trendContext, stability);
\* the function does not read trendContext
analyzeMarketEntropyState(history, stability) ==
    IF Len(history) < ENTROPY_WINDOW_LONG THEN "UNCERTAIN_ENTROPY"
    ELSE EntropyStateWith(history, stability,
             calculateEntropyForSignal(OutcomesOf(Take(history, ENTROPY_WINDOW_SHORT)),
                                       ENTROPY_WINDOW_SHORT),
             calculateEntropyForSignal(OutcomesOf(Take(history, ENTROPY_WINDOW_LONG)),
                                       ENTROPY_WINDOW_LONG))

\* getOppositeOutcome(prediction)
getOppositeOutcome(prediction) ==
    IF prediction = "BIG" THEN "SMALL"
    ELSE IF prediction = "SMALL" THEN "BIG"
    ELSE ""

\* the length of the run of type that begins actuals
RECURSIVE StreakLength(_, _)
StreakLength(actuals, type) ==
    IF actuals = <<>> \/ Head(actuals) # type THEN 0
    ELSE 1 + StreakLength(Tail(actuals), type)

\* the signal of analyzeStreaks once the classes are known
StreakSignal(actuals, baseWeight) ==
    IF Len(actuals) < 3 \/ StreakLength(actuals, actuals[1]) < 2 THEN NoSignal
    ELSE Signal("StreakBreak-" \o ToString(StreakLength(actuals, actuals[1])),
                getOppositeOutcome(actuals[1]),
                Mul(baseWeight,
                    Min(4500 + StreakLength(actuals, actuals[1]) * 1800, 9500)))

\* analyzeStreaks(history, baseWeight)
analyzeStreaks(history, baseWeight) ==
    IF Len(history) < 3 THEN NoSignal
    ELSE StreakSignal(SelectSeq(OutcomesOf(history), LAMBDA bs : bs # ""), baseWeight)

(* the classifiers on alternating histories and on runs of one class *)

\* how the records of a history are marked: by the tracker's scoring, by the
\* statuses of the data model, as mainCycle marks a stored result, or not at all
StatusSchemes == {"Win/Loss", "win/loss", "resolved", "none"}

\* the status of the i-th record under a scheme
StatusAt(scheme, i) ==
    IF scheme = "Win/Loss" THEN (IF i % 3 = 0 THEN "Loss" ELSE "Win")
    ELSE IF scheme = "win/loss" THEN (IF i % 3 = 0 THEN "loss" ELSE "win")
    ELSE IF scheme = "resolved" THEN "resolved"
    ELSE ""

\* a history, newest first, whose results are first, second, first, ...
PatternHistory(length, first, second, scheme) ==
    [i \in 1 .. length |->
        StatusRecord(IF i % 2 = 1 THEN first ELSE second, Undefined, StatusAt(scheme, i))]

\* the pairs of numbers of a pattern: one number of each class, or two BIG numbers
PatternDigits(pattern) ==
    IF pattern = "alternating"
    THEN {<<a, b>> \in (0 .. 9) \X (0 .. 9) :
             getBigSmallFromNumber(a) # getBigSmallFromNumber(b)}
    ELSE (5 .. 9) \X (5 .. 9)

PatternLengths == {24, 25, 60}

\* the base weight ultraAIPredict gives the streak generator
StreakBaseWeight == 450

StabilityInit ==
    /\ CycleIdle
    /\ signalPerformance = [s \in SourceNames |-> NoPerf]
    /\ driftDetector = FreshDetector
    /\ driftLog = <<>>
    /\ now = 1
    /\ ret = [op |-> "none"]
    /\ \E pattern \in {"alternating", "run"}, length \in PatternLengths,
          scheme \in StatusSchemes :
          \E digits \in PatternDigits(pattern) :
             env = [pattern |-> pattern, length |-> length, scheme |-> scheme,
                    first |-> digits[1], second |-> digits[2], called |-> FALSE]

\* what the three classifiers return for a history and its stability
Classified(history, stability) ==
    [op |-> "stability", stability |-> stability,
     entropyState |-> analyzeMarketEntropyState(history, stability),
     streak |-> analyzeStreaks(history, StreakBaseWeight)]

\* analyzeTrendStability, analyzeMarketEntropyState and analyzeStreaks on the
\* history
StabilityCheck ==
    /\ ~env.called
    /\ ret' = Classified(PatternHistory(env.length, env.first, env.second, env.scheme),
                         analyzeTrendStability(
                             PatternHistory(env.length, env.first, env.second, env.scheme)))
    /\ env' = [env EXCEPT !.called = TRUE]
    /\ UNCHANGED <<signalPerformance, now, driftVars, cycleVars>>

StabilityNext == StabilityCheck

SpecStability == StabilityInit /\ [][StabilityNext]_vars

-----------------------------------------------------------------------------
(* Moving averages and the trend context of a history *)

\* the unit of a moving average: six decimals
MaUnit == 1000 * 1000

\* s.slice().reverse()
Reverse(s) == [i \in 1 .. Len(s) |-> s[Len(s) + 1 - i]]

\* calculateSMA(data, period), in MaUnit units; Null for null
calculateSMA(data, period) ==
    IF Len(data) < period \/ period <= 0 THEN Null
    ELSE (SumSeq(Take(data, period)) * MaUnit) \div period

\* (x * k) + (ema * (1 - k)) with k = 2 / (period + 1)
Smoothed(ema, x, period) == (2 * x * MaUnit + ema * (period - 1)) \div (period + 1)

\* the smoothing steps of calculateEMA for the elements lo .. hi of
\* chronologicalData, oldest first; the range is halved to keep the evaluation
\* shallow
RECURSIVE SmoothRange(_, _, _, _, _)
SmoothRange(chronologicalData, period, ema, lo, hi) ==
    IF ema = Null \/ lo > hi THEN ema
    ELSE IF lo = hi THEN Smoothed(ema, chronologicalData[lo], period)
    ELSE SmoothRange(chronologicalData, period,
                     SmoothRange(chronologicalData, period, ema, lo, (lo + hi) \div 2),
                     (lo + hi) \div 2 + 1, hi)

\* the loop of calculateEMA entered one element early
SmoothFromSeed(chronologicalData, period, ema) ==
    SmoothRange(chronologicalData, period, ema, period, Len(chronologicalData))

\* the loop of calculateEMA: for (let i = period; i < length; i++), from zero
SmoothRest(chronologicalData, period, ema) ==
    SmoothRange(chronologicalData, period, ema, period + 1, Len(chronologicalData))

\* calculateEMA(data, period), in MaUnit units; Null for null
calculateEMA(data, period) ==
    IF Len(data) < period \/ period <= 0 THEN Null
    ELSE SmoothRest(Reverse(data), period,
                    calculateSMA(Reverse(Take(Reverse(data), period)), period))

\* what getTrendContext returns
TrendContext(strength, direction, volatility, macroRegime) ==
    [strength |-> strength, direction |-> direction, volatility |-> volatility,
     macroRegime |-> macroRegime, isTransitioning |-> FALSE]

UnknownContext == TrendContext("UNKNOWN", "NONE", "UNKNOWN", "UNKNOWN_REGIME")

\* a standard deviation in thousandths; Null for null
StdDevMilli(stdDev) ==
    IF stdDev.num = Null THEN Null
    ELSE SqrtBetween(((stdDev.num * SCALE) \div stdDev.den) * 100, 0, SCALE)

\* normalizedSpread in thousandths: the spread over stdDevLong, or over
\* epsilon = 0.001 when the deviation is null or not above it
NormalizedSpread(shortMA, longMA, stdDevLong) ==
    IF StdDevMilli(stdDevLong) # Null /\ StdDevMilli(stdDevLong) > 1
    THEN (shortMA - longMA) \div StdDevMilli(stdDevLong)
    ELSE shortMA - longMA

\* strength and direction of getTrendContext
TrendStrength(shortMA, mediumMA, longMA, normalizedSpread) ==
    IF shortMA > mediumMA /\ mediumMA > longMA
    THEN <<IF normalizedSpread > 800 THEN "STRONG"
           ELSE IF normalizedSpread > 450 THEN "MODERATE" ELSE "WEAK", "BIG">>
    ELSE IF shortMA < mediumMA /\ mediumMA < longMA
    THEN <<IF normalizedSpread < 0 - 800 THEN "STRONG"
           ELSE IF normalizedSpread < 0 - 450 THEN "MODERATE" ELSE "WEAK", "SMALL">>
    ELSE <<"RANGING", IF shortMA > longMA THEN "BIG_BIASED_RANGE"
                      ELSE IF longMA > shortMA THEN "SMALL_BIASED_RANGE" ELSE "NONE">>

\* volatility of getTrendContext
TrendVolatility(volSlice) ==
    IF Len(volSlice) < 15 \/ calculateStdDev(volSlice, Len(volSlice)).num = Null
    THEN "UNKNOWN"
    ELSE IF StdDevAbove(calculateStdDev(volSlice, Len(volSlice)), 33) THEN "HIGH"
    ELSE IF StdDevAbove(calculateStdDev(volSlice, Len(volSlice)), 20) THEN "MEDIUM"
    ELSE IF StdDevAbove(calculateStdDev(volSlice, Len(volSlice)), 9) THEN "LOW"
    ELSE "VERY_LOW"

\* getTrendContext once the three averages are known
TrendOfAverages(numbers, shortMA, mediumMA, longMA, longMALookback) ==
    IF shortMA = Null \/ mediumMA = Null \/ longMA = Null THEN UnknownContext
    ELSE TrendContext(
             TrendStrength(shortMA, mediumMA, longMA,
                 NormalizedSpread(shortMA, longMA,
                                  calculateStdDev(numbers, longMALookback)))[1],
             TrendStrength(shortMA, mediumMA, longMA,
                 NormalizedSpread(shortMA, longMA,
                                  calculateStdDev(numbers, longMALookback)))[2],
             TrendVolatility(Take(numbers, 30)),
             "PENDING_REGIME_CLASSIFICATION")

\* getTrendContext once the numbers are known
TrendOfNumbers(numbers, shortMALookback, mediumMALookback, longMALookback) ==
    IF Len(numbers) < longMALookback THEN UnknownContext
    ELSE TrendOfAverages(numbers, calculateEMA(numbers, shortMALookback),
                         calculateEMA(numbers, mediumMALookback),
                         calculateEMA(numbers, longMALookback), longMALookback)

\* getTrendContext(history, 5, 10, 20)
getTrendContext(history, shortMALookback, mediumMALookback, longMALookback) ==
    IF Len(history) < longMALookback THEN UnknownContext
    ELSE TrendOfNumbers(NumbersOf(history), shortMALookback, mediumMALookback,
                        longMALookback)

\* a moving average is truthy: neither null nor zero
TruthyAverage(ma) == ma # Null /\ ma # 0

\* the short average crosses the medium one between the previous and the
\* current result
Crosses(prevShortMA, prevMediumMA, currentShortMA, currentMediumMA) ==
    /\ TruthyAverage(prevShortMA) /\ TruthyAverage(prevMediumMA)
    /\ TruthyAverage(currentShortMA) /\ TruthyAverage(currentMediumMA)
    /\ \/ prevShortMA <= prevMediumMA /\ currentShortMA > currentMediumMA
       \/ prevShortMA >= prevMediumMA /\ currentShortMA < currentMediumMA

\* isTransitioning of getMarketRegimeAndTrendContext
IsTransitioning(numbers, shortMALookback, mediumMALookback) ==
    /\ Len(numbers) > mediumMALookback + 5
    /\ Crosses(calculateEMA(Tail(numbers), shortMALookback),
               calculateEMA(Tail(numbers), mediumMALookback),
               calculateEMA(numbers, shortMALookback),
               calculateEMA(numbers, mediumMALookback))

\* getMarketRegimeAndTrendContext once the base context and the crossing are known
RegimeOfContext(baseContext, isTransitioning) ==
    [baseContext EXCEPT
        !.macroRegime = MacroRegime(baseContext.strength, baseContext.volatility,
                                    isTransitioning),
        !.isTransitioning = isTransitioning]

\* getMarketRegimeAndTrendContext(history)
getMarketRegimeAndTrendContext(history) ==
    RegimeOfContext(getTrendContext(history, 5, 10, 20),
                    IsTransitioning(NumbersOf(history), 5, 10))

(* the context classifiers and ultraAIPredict on histories of every length *)

\* a history, newest first, of records as mainCycle of the file server builds
\* them: the newest result is first, the older ones are second, first, second, ...
\* ("alternating"), or all second ("step")
ContextHistory(kind, length, first, second) ==
    [i \in 1 .. length |->
        StatusRecord(IF i = 1 \/ (kind = "alternating" /\ i % 2 = 1)
                     THEN first ELSE second,
                     IF i = 1 \/ (kind = "alternating" /\ i % 2 = 1)
                     THEN first ELSE second,
                     "resolved")]

ContextLengths == {0, 1, 15, 16, 19, 20, 25, 60}

ContextDigits == {0, 2, 4, 5, 9}

\* what the context functions of ultraAIPredict compute from a history
MarketOfContext(history, trendContext, stability) ==
    Market(Len(ConfirmedHistory(history)), trendContext.strength,
           trendContext.volatility, trendContext.isTransitioning,
           stability.isStable,
           stability.reason = "Unstable: Excessive Choppiness",
           analyzeMarketEntropyState(history, stability), SCALE)

MarketOf(history) ==
    MarketOfContext(history, getMarketRegimeAndTrendContext(history),
                    analyzeTrendStability(history))

ContextInit ==
    /\ signalPerformance = [s \in SourceNames |-> NoPerf]
    /\ driftDetector = FreshDetector
    /\ driftLog = <<>>
    /\ consecutiveHighConfLosses = 0
    /\ reflexiveCorrectionActive = 0
    /\ GLOBAL_LONG_TERM_ACCURACY_FOR_LEARNING_RATE = SCALE \div 2
    /\ sharedStats = EmptyState
    /\ now = 1
    /\ ret = [op |-> "none"]
    /\ \E b \in Builds, kind \in {"alternating", "step"}, length \in ContextLengths,
          first \in ContextDigits, second \in ContextDigits :
          /\ REGIME_SIGNAL_PROFILES = DeclaredProfiles(b)
          /\ env = [build |-> b, called |-> FALSE, length |-> length,
                    history |-> ContextHistory(kind, length, first, second)]

\* the state after ultraAIPredict returned r for the history
ContextReturned(r, history, market) ==
    /\ signalPerformance' = r.engine.signalPerformance
    /\ driftDetector' = r.engine.driftDetector
    /\ REGIME_SIGNAL_PROFILES' = r.engine.profiles
    /\ consecutiveHighConfLosses' = r.engine.losses
    /\ reflexiveCorrectionActive' = r.engine.active
    /\ GLOBAL_LONG_TERM_ACCURACY_FOR_LEARNING_RATE' = r.engine.globalAccuracy
    /\ sharedStats' = r.stats
    /\ ret' = [op |-> "context", output |-> r.output,
               trendContext |-> getMarketRegimeAndTrendContext(history),
               stability |-> analyzeTrendStability(history),
               entropyState |-> market.entropy]
    /\ env' = [env EXCEPT !.called = TRUE]
    /\ UNCHANGED <<now, driftLog>>

\* ultraAIPredict(history, {}) on a fresh engine
ContextCycle ==
    \E results \in GeneratorResults, decision \in Outcomes, fusion \in FusionOutcomes :
        /\ ~env.called
        /\ ContextReturned(ultraAIPredict(env.build, Engine, sharedStats,
                                          MarketOf(env.history),
                                          results, decision, fusion, now),
                           env.history, MarketOf(env.history))

ContextNext == ContextCycle

SpecContext == ContextInit /\ [][ContextNext]_vars

(* the moving averages on short sequences of numbers *)

MaxAveragePeriod == 4

AverageNumbers == {0, 3, 7, 9}

\* data of exactly period numbers, or of one more
AverageInit ==
    /\ CycleIdle
    /\ signalPerformance = [s \in SourceNames |-> NoPerf]
    /\ driftDetector = FreshDetector
    /\ driftLog = <<>>
    /\ now = 1
    /\ ret = [op |-> "none"]
    /\ \E period \in 1 .. MaxAveragePeriod, extra \in {0, 1} :
          \E data \in [1 .. period + extra -> AverageNumbers] :
             env = [period |-> period, data |-> data, called |-> FALSE]

\* calculateEMA(data, period) and calculateSMA(data, period)
Average ==
    /\ ~env.called
    /\ ret' = [op |-> "average", ema |-> calculateEMA(env.data, env.period),
               sma |-> calculateSMA(env.data, env.period)]
    /\ env' = [env EXCEPT !.called = TRUE]
    /\ UNCHANGED <<signalPerformance, now, driftVars, cycleVars>>

AverageNext == Average

SpecAverage == AverageInit /\ [][AverageNext]_vars

(* calculateEntropyForSignal on short windows of outcomes *)

MaxWindow == 6

\* the outcomes of a window: "" is the null of getBigSmallFromNumber
WindowOutcomes == {"BIG", "SMALL", ""}

EntropyInit ==
    /\ CycleIdle
    /\ signalPerformance = [s \in SourceNames |-> NoPerf]
    /\ driftDetector = FreshDetector
    /\ driftLog = <<>>
    /\ now = 1
    /\ ret = [op |-> "none"]
    /\ \E n \in 1 .. MaxWindow, extra \in {0, 1} :
          \E outcomes \in [1 .. n -> WindowOutcomes] :
             env = [outcomes |-> outcomes, windowSize |-> n - extra, called |-> FALSE]

\* calculateEntropyForSignal(outcomes, windowSize)
Entropy ==
    /\ ~env.called
    /\ ret' = [op |-> "entropy",
               entropy |-> calculateEntropyForSignal(env.outcomes, env.windowSize),
               big |-> Occurrences(Take(env.outcomes, env.windowSize), "BIG"),
               small |-> Occurrences(Take(env.outcomes, env.windowSize), "SMALL")]
    /\ env' = [env EXCEPT !.called = TRUE]
    /\ UNCHANGED <<signalPerformance, now, driftVars, cycleVars>>

EntropyNext == Entropy

SpecEntropy == EntropyInit /\ [][EntropyNext]_vars

-----------------------------------------------------------------------------
(* Properties of the tracker *)

\* C2: after any sequence of updates and inactivity-decay steps, every
\* source's currentAdjustmentFactor lies in [MIN_WEIGHT_FACTOR,
\* MAX_WEIGHT_FACTOR] and its alphaFactor in [MIN_ALPHA_FACTOR, MAX_ALPHA_FACTOR].
C2_FactorBounds ==
    \A s \in SourceNames :
        signalPerformance[s] # NoPerf =>
            /\ signalPerformance[s].currentAdjustmentFactor >= MIN_WEIGHT_FACTOR
            /\ signalPerformance[s].currentAdjustmentFactor <= MAX_WEIGHT_FACTOR
            /\ signalPerformance[s].alphaFactor >= MIN_ALPHA_FACTOR
            /\ signalPerformance[s].alphaFactor <= MAX_ALPHA_FACTOR

\* a source driven to both lower clamps and then decayed one step
C2_Witness ==
    /\ signalPerformance[PerfSource] # NoPerf
    /\ env.idled
    /\ signalPerformance[PerfSource].alphaFactor = MIN_ALPHA_FACTOR
    /\ signalPerformance[PerfSource].currentAdjustmentFactor = MIN_WEIGHT_FACTOR + DECAY_RATE

\* C3 as claimed: whenever the source is on probation, the weight returned by
\* getDynamicWeightAdjustment is at most PROBATION_WEIGHT_CAP times the weight
\* passed in, for every weight passed in.
C3_ProbationCapHolds ==
    (ret.op = "query" /\ ret.isOnProbation) =>
        ret.weight * SCALE <= PROBATION_WEIGHT_CAP * ret.baseWeight

\* C4: a counted update that leaves at least PROBATION_MIN_OBSERVATIONS recent
\* results with a mean below 0.40 leaves the source on probation.
C4_ProbationEntered ==
    (ret.op = "update" /\ ret.counted) =>
        LET p == signalPerformance[PerfSource]
        IN (Len(p.recentAccuracy) >= PROBATION_MIN_OBSERVATIONS
            /\ SumSeq(p.recentAccuracy) * 100
                 < PROBATION_THRESHOLD_ACCURACY * Len(p.recentAccuracy))
           => p.isOnProbation

\* the 16th or a later counted update of a source that was right a few times
C4_Witness ==
    /\ ret.op = "update" /\ ret.counted
    /\ signalPerformance[PerfSource].total > PROBATION_MIN_OBSERVATIONS
    /\ SumSeq(signalPerformance[PerfSource].recentAccuracy) > 0
    /\ SumSeq(signalPerformance[PerfSource].recentAccuracy) * 100
          < PROBATION_THRESHOLD_ACCURACY * Len(signalPerformance[PerfSource].recentAccuracy)
    /\ signalPerformance[PerfSource].isOnProbation

-----------------------------------------------------------------------------
(* Properties of the drift detector *)

\* the length of a run of correct results that counts as long
LongRun == 5

\* the calls so far are a long run of correct results followed by incorrect ones
CorrectThenIncorrect ==
    \E k \in LongRun .. Len(driftLog) - 1 :
        /\ \A i \in 1 .. k : driftLog[i].isCorrect
        /\ \A i \in k + 1 .. Len(driftLog) : ~driftLog[i].isCorrect

\* C9 as claimed: from a fresh detector, a long run of correct results followed
\* by incorrect ones is classified WARNING before it is first classified DRIFT;
\* the first DRIFT does not directly follow a STABLE.
C9_WarningBeforeDrift ==
    (/\ CorrectThenIncorrect
     /\ driftLog[Len(driftLog)].result = "DRIFT"
     /\ \A i \in 1 .. Len(driftLog) - 1 : driftLog[i].result # "DRIFT")
    => /\ \E i \in 1 .. Len(driftLog) - 1 : driftLog[i].result = "WARNING"
       /\ driftLog[Len(driftLog) - 1].result # "STABLE"

\* C10: right after a DRIFT the minimum tracker is reset and a new window is
\* started (n = 1), and the call that follows a DRIFT returns STABLE.
C10_DriftResets ==
    \A i \in 1 .. Len(driftLog) :
        driftLog[i].result = "DRIFT" =>
            /\ i = Len(driftLog) =>
                  /\ driftDetector.p_min = Infinity
                  /\ driftDetector.s_min = Infinity
                  /\ driftDetector.n = 1
            /\ i < Len(driftLog) => driftLog[i + 1].result = "STABLE"

\* a DRIFT followed by one correct result, classified STABLE
C10_Witness ==
    \E i \in 1 .. Len(driftLog) - 1 :
        /\ driftLog[i].result = "DRIFT"
        /\ driftLog[i + 1].isCorrect
        /\ driftLog[i + 1].result = "STABLE"

-----------------------------------------------------------------------------
(* Properties of the prediction cycle *)

\* C1 as claimed: every call of ultraAIPredict returns an object whose
\* finalDecision is BIG or SMALL and none ends in an exception, also with 52
\* or more confirmed records and the DEFAULT profile.
C1_AlwaysReturnsDecision ==
    ret.op = "cycle" =>
        /\ ~ret.output.threw
        /\ ret.output.finalDecision \in Outcomes

\* C5 as claimed: with fewer than 52 confirmed records, or with no signal whose
\* adjusted weight is above MIN_ABSOLUTE_WEIGHT, ultraAIPredict returns an
\* output with confidenceLevel 1, isForcedPrediction true and finalConfidence
\* in [0.48, 0.52].
C5_ForcedOutputShape ==
    (ret.op = "cycle" /\ (ret.confirmed < 52 \/ ret.valid = 0)) =>
        /\ ~ret.output.threw
        /\ ret.output.confidenceLevel = 1
        /\ ret.output.isForcedPrediction
        /\ ret.output.finalConfidence >= 4800
        /\ ret.output.finalConfidence <= 5200

\* C6 as claimed: a source that contributed to the predictions of N distinct
\* periods that were resolved has total = N and N entries in recentAccuracy.
C6_OneUpdatePerResolvedPeriod ==
    \A s \in SourceNames :
        /\ env.resolved[s] > 0 => signalPerformance[s] # NoPerf
        /\ signalPerformance[s] # NoPerf =>
              /\ signalPerformance[s].total = env.resolved[s]
              /\ Len(signalPerformance[s].recentAccuracy) = env.resolved[s]

\* C7 as claimed: after a cycle that took a forced-random path the state object
\* holds that cycle's fields: the forced decision, confidence 0.5, level 1, an
\* empty lastPredictionSignals, aurochsState.
C7_ForcedPathUpdatesState ==
    (ret.op = "cycle" /\ ret.output.source \in {"InsufficientHistory", "NoValidSignals"}) =>
        /\ sharedStats.lastPredictedOutcome = ret.output.finalDecision
        /\ sharedStats.lastFinalConfidence = SCALE \div 2
        /\ sharedStats.lastConfidenceLevel = 1
        /\ sharedStats.lastPredictionSignals = [defined |-> TRUE, items |-> <<>>]
        /\ sharedStats.aurochsState # Null

\* the module-level state and the choppy counter
Learned ==
    <<signalPerformance, REGIME_SIGNAL_PROFILES, driftDetector,
      consecutiveHighConfLosses, reflexiveCorrectionActive,
      GLOBAL_LONG_TERM_ACCURACY_FOR_LEARNING_RATE, sharedStats.aurochsState>>

\* C8 as claimed: a cycle that ends early for insufficient history changes none
\* of the module-level state and the choppy counter, or the persisted fields of
\* the state object are that cycle's as well.
C8_EarlyExitAllOrNothing ==
    [][(ret'.op = "cycle" /\ ret'.output.source = "InsufficientHistory") =>
          \/ Learned' = Learned
          \/ /\ sharedStats'.lastPredictedOutcome = ret'.output.finalDecision
             /\ sharedStats'.lastFinalConfidence = SCALE \div 2
             /\ sharedStats'.lastConfidenceLevel = 1
             /\ sharedStats'.periodFull = now]_vars

-----------------------------------------------------------------------------
(* Properties of reflexive correction *)

\* C11: the call in which two consecutive level-3 losses are counted sets the
\* countdown to 5 and reports the correction active; each of the 5 calls that
\* follow reports it active and counts down by one; the call after those
\* reports it inactive, whatever result arrived meanwhile.
C11_ReflexiveCountdown ==
    ret.op = "anomaly" =>
        /\ env.sinceTrigger = 0 =>
              (ret.result /\ reflexiveCorrectionActive = 5
               /\ consecutiveHighConfLosses = 0)
        /\ env.sinceTrigger \in 1 .. 5 =>
              (ret.result /\ reflexiveCorrectionActive = 5 - env.sinceTrigger)
        /\ env.sinceTrigger = 6 =>
              (~ret.result /\ reflexiveCorrectionActive = 0)
        /\ env.sinceTrigger = Null => ~ret.result

\* the first call after a countdown ran out, made with a level-3 loss
C11_Witness ==
    /\ ret.op = "anomaly"
    /\ env.sinceTrigger = 6
    /\ ~ret.result
    /\ sharedStats.lastConfidenceLevel = 3
    /\ sharedStats.lastActualOutcome = 3
    /\ consecutiveHighConfLosses = 1

-----------------------------------------------------------------------------
(* Properties of the fusion *)

\* C12 as claimed: the finalConfidence the fusion returns is strictly between
\* 0 and 1 for every combination of signal scores, session confidence
\* multiplier, external-data factor and uncertainty.
C12_ConfidenceInUnitInterval ==
    ret.op = "fuse" =>
        /\ ret.output.finalConfidence > 0
        /\ ret.output.finalConfidence < SCALE

\* C13: whenever the uncertainty score reaches the threshold (65 with
\* reflexive correction or DRIFT, otherwise 95) or the quality score is below
\* 0.20, the output is forced, at level 1, with finalConfidence within 0.01 of
\* 0.5, whatever confidence and level were computed; otherwise it is not forced.
C13_ForcedOverride ==
    ret.op = "fuse" =>
        LET o == ret.output
            threshold == IF env.x.isReflexiveCorrection \/ env.x.driftState = "DRIFT"
                         THEN 6500 ELSE 9500
        IN IF o.uncertainty >= threshold \/ o.pqs < 2000
           THEN /\ o.isForcedPrediction
                /\ o.confidenceLevel = 1
                /\ o.finalConfidence >= SCALE \div 2 - 100
                /\ o.finalConfidence <= SCALE \div 2 + 100
           ELSE ~o.isForcedPrediction

\* a forced output whose computed confidence was above 0.51 and whose model
\* level was above 1
C13_Witness ==
    /\ ret.op = "fuse"
    /\ ret.output.isForcedPrediction
    /\ ret.output.computedConfidence > SCALE \div 2 + 100
    /\ ret.output.modelLevel > 1
    /\ ret.output.confidenceLevel = 1

\* C14: confidenceLevel is 1, 2 or 3, and it is 3 only when the drift state is
\* STABLE, the prediction is not forced, and an ML-family signal among the
\* valid signals predicts finalDecision.
C14_LevelThreeNeedsML ==
    ret.op = "fuse" =>
        /\ ret.output.confidenceLevel \in {1, 2, 3}
        /\ ret.output.confidenceLevel = 3 =>
              /\ env.x.driftState = "STABLE"
              /\ ~ret.output.isForcedPrediction
              /\ \E i \in DOMAIN env.signals :
                    /\ IsMLSource(env.signals[i].source)
                    /\ env.signals[i].prediction = ret.output.finalDecision

\* an output of level 3
C14_Witness ==
    /\ ret.op = "fuse"
    /\ ret.output.confidenceLevel = 3
    /\ Len(env.signals) >= 4

-----------------------------------------------------------------------------
(* Properties of the minimum-history check *)

\* C15 as claimed: in a history of records {period, actual}, and in one of the
\* records the server passes in, every record with a result counts as
\* confirmed, so with 52 or more of them the call does not end in the
\* InsufficientHistory fallback.
C15_InterfaceRecordsConfirmed ==
    (ret.op = "history" /\ env.shape \in {"interface", "server"}) =>
        /\ ret.confirmed = ret.resolved
        /\ ret.resolved >= 52 => ret.output.source # "InsufficientHistory"

-----------------------------------------------------------------------------
(* Properties of the servers *)

\* C16 as claimed: the executions of mainCycle never interleave so that
\* ultraAIPredict runs twice for the same period id; each new period id is
\* stored at most once and predicted at most once.
C16_OneCyclePerPeriod ==
    \A id \in 1 .. MaxPeriods :
        /\ env.runs[id] <= 1
        /\ env.sets[id] <= 1

\* C17 as claimed: a state file that does not parse, or one whose
\* lastPredictionSignals is not an array, is a cold start: the state object is
\* the empty one after loadState and no cycle ends in an exception.
C17_MalformedStateIsColdStart ==
    env.file \in {"unparsable", "notArray"} =>
        /\ ret.op = "loadState" => sharedStats = EmptyState
        /\ ret.op = "loadedCycle" => ~ret.output.threw

-----------------------------------------------------------------------------
(* Properties of the classification *)

\* C18 as claimed: getBigSmallFromNumber is SMALL exactly for the integers 0-4
\* and BIG exactly for 5-9 among the integers 0-9, and null for null, for
\* undefined and for every input that is not numeric (here: a string with a
\* letter in it).
C18_ClassificationPartition ==
    ret.op = "classify" =>
        /\ (env.input.type = "number" /\ env.input.number \in 0 .. 9) =>
              /\ ret.result = "SMALL" <=> env.input.number <= 4
              /\ ret.result = "BIG" <=> env.input.number >= 5
        /\ env.input.type \in {"null", "undefined"} => ret.result = ""
        /\ (env.input.type = "string"
            /\ \E i \in DOMAIN env.input.chars : env.input.chars[i] = "a")
           => ret.result = ""

\* C19: a history of 60 resolved records whose classes strictly alternate is
\* reported unstable for excessive choppiness, whatever numbers stand for the
\* two classes and under the statuses of the data model as well as the
\* tracker's
C19_AlternatingIsChoppy ==
    (/\ ret.op = "stability" /\ env.pattern = "alternating" /\ env.length = 60
     /\ env.scheme \in {"Win/Loss", "win/loss"})
    => /\ ~ret.stability.isStable
       /\ ret.stability.reason = "Unstable: Excessive Choppiness"

\* C20: a history of 25 resolved BIG records in a row, whatever status marks
\* them resolved, is reported unstable for extreme outcome dominance, its
\* entropy state is not ORDERLY, and the streak generator predicts SMALL
C20_RunOfBigIsDominance ==
    (/\ ret.op = "stability" /\ env.pattern = "run" /\ env.length = 25
     /\ env.scheme \in {"Win/Loss", "win/loss", "resolved"})
    => /\ ret.stability.reason = "Unstable: Extreme Outcome Dominance"
       /\ ret.entropyState # "ORDERLY"
       /\ ret.streak # NoSignal
       /\ ret.streak.prediction = "SMALL"

\* C21: for a history of fewer than 20 records the trend context has strength
\* and volatility UNKNOWN and its macro regime is the unknown sentinel, the
\* trend is stable by default, the entropy state is UNCERTAIN_ENTROPY, and
\* ultraAIPredict returns the forced fallback of source InsufficientHistory
C21_ShortHistorySentinels ==
    (ret.op = "context" /\ env.length < 20) =>
        /\ ret.trendContext.strength = "UNKNOWN"
        /\ ret.trendContext.volatility = "UNKNOWN"
        /\ ret.trendContext.macroRegime = "UNKNOWN_REGIME"
        /\ ret.stability.isStable
        /\ ret.entropyState = "UNCERTAIN_ENTROPY"
        /\ ret.output.isForcedPrediction
        /\ ret.output.source = "InsufficientHistory"

\* C22: on exactly period numbers calculateEMA returns what calculateSMA
\* returns, the mean of the numbers
C22_EmaSeedIsSma ==
    (ret.op = "average" /\ Len(env.data) = env.period) =>
        /\ ret.ema = ret.sma
        /\ ret.ema = (SumSeq(env.data) * MaUnit) \div env.period

\* C22 is exercised: several different numbers, averaged both ways
C22_Witness ==
    /\ ret.op = "average"
    /\ env.period = MaxAveragePeriod
    /\ Len(env.data) = env.period
    /\ env.data[1] # env.data[env.period]
    /\ ret.ema = ret.sma

\* C23: calculateEntropyForSignal returns a value in [0, 1] for a window with
\* at least one BIG or SMALL outcome, 0 when all its outcomes are of one class,
\* 1 when BIG and SMALL are as many, and 1 for a window with no valid outcome
C23_EntropyBounds ==
    ret.op = "entropy" =>
        /\ ret.big + ret.small > 0 => (ret.entropy >= 0 /\ ret.entropy <= SCALE)
        /\ (ret.big + ret.small > 0 /\ (ret.big = 0 \/ ret.small = 0)) => ret.entropy = 0
        /\ (ret.big = ret.small /\ ret.big > 0) => ret.entropy = SCALE
        /\ ret.big + ret.small = 0 => ret.entropy = SCALE

\* C23 is exercised: an uneven window whose entropy lies strictly between
C23_Witness ==
    /\ ret.op = "entropy"
    /\ ret.big = 1
    /\ ret.small = MaxWindow - 2
    /\ ret.entropy > 0
    /\ ret.entropy < SCALE

\* C24: when the categories won by SMALL outnumber those won by BIG and the
\* consensus factor is above 1, the fusion raises the SMALL score by the factor
\* and lowers the BIG score by 2.0 - factor
C24_FactorBoostsDominantSide ==
    (/\ ret.op = "fuse" /\ Len(env.signals) >= 4
     /\ ret.categories.small > ret.categories.big
     /\ ret.factor > SCALE
     /\ ret.unweighted.big > 0 /\ ret.unweighted.small > 0)
    => /\ ret.scores.small = Mul(ret.unweighted.small, ret.factor)
       /\ ret.scores.big = Mul(ret.unweighted.big, 2 * SCALE - ret.factor)
       /\ ret.scores.small > ret.unweighted.small
       /\ ret.scores.big < ret.unweighted.big

\* C25: the drift detector and the performance tracker are invoked at most
\* once for each stored prediction: no later cycle scores the same prediction
\* again against a newer result, also after a cycle that took a forced path
C25_PredictionScoredOnce ==
    \A p \in PredictionIds :
        /\ env.driftCalls[p] <= 1
        /\ env.trackerCalls[p] <= 1

\* the profile ultraAIPredict uses for a regime: its own, or DEFAULT
UsedProfile(profiles, regime) ==
    IF regime \in ProfileNames /\ profiles[regime] # NoProfile THEN regime ELSE "DEFAULT"

\* C26: a cycle that scores a stored prediction counts it in exactly one
\* regime profile, the one used for the regime of that prediction (DEFAULT when
\* the regime has no profile of its own): its totalPredictions grows by 1 and
\* its recentAccuracy by one entry, and no other profile is counted
C26_OneProfilePerResolvedPeriod ==
    [][(ret'.op = "cycle" /\ ret'.scoredRegime # "") =>
          \A n \in ProfileNames :
              REGIME_SIGNAL_PROFILES[n] # NoProfile =>
                  LET counted == IF n = UsedProfile(REGIME_SIGNAL_PROFILES',
                                                    ret'.scoredRegime)
                                 THEN 1 ELSE 0
                  IN /\ REGIME_SIGNAL_PROFILES'[n].totalPredictions
                           = REGIME_SIGNAL_PROFILES[n].totalPredictions + counted
                     /\ Len(REGIME_SIGNAL_PROFILES'[n].recentAccuracy)
                           = Len(REGIME_SIGNAL_PROFILES[n].recentAccuracy) + counted]_vars

-----------------------------------------------------------------------------
(* Regime discovery driven cycle by cycle: up to MaxDiscoveryCycles cycles   *)
(* of one process, each on a market that qualifies for the choppy counter   *)
(* (VERY_LOW volatility and choppiness) or fails one of the two conditions.  *)
(* The generators return signals in every cycle and the prediction is BIG.   *)

MaxDiscoveryCycles == 10

\* results that arrive: a SMALL number and a BIG one
DiscoveryNumbers == {2, 7}

DiscoveryMarkets ==
    {Market(60, "RANGING", "VERY_LOW", FALSE, FALSE, TRUE,
            "POTENTIAL_CHAOS_FROM_INSTABILITY", SCALE),
     Market(60, "RANGING", "LOW", FALSE, FALSE, TRUE,
            "POTENTIAL_CHAOS_FROM_INSTABILITY", SCALE),
     Market(60, "RANGING", "VERY_LOW", FALSE, TRUE, FALSE, "ORDERLY", SCALE)}

\* the condition under which discoverAndAdaptRegimes increments the counter
Qualifies(market) == market.volatility = "VERY_LOW" /\ market.choppy

\* a transition signal (0.05 * 0.8) against a streak-break signal (0.045 * 0.81)
DiscoveryResults ==
    [g \in GeneratorNames |->
        IF g = "analyzeTransitions" THEN Signal("Transition", "BIG", 400)
        ELSE IF g = "analyzeStreaks" THEN Signal("StreakBreak-2", "SMALL", 364)
        ELSE NoSignal]

\* what the fusion of the two arrives at
DiscoveryFusion ==
    [finalConfidence |-> 5176, confidenceLevel |-> 1, isForcedPrediction |-> FALSE]

DiscoveryInit ==
    /\ signalPerformance = [s \in SourceNames |-> NoPerf]
    /\ driftDetector = FreshDetector
    /\ driftLog = <<>>
    /\ consecutiveHighConfLosses = 0
    /\ reflexiveCorrectionActive = 0
    /\ GLOBAL_LONG_TERM_ACCURACY_FOR_LEARNING_RATE = SCALE \div 2
    /\ sharedStats = EmptyState
    /\ \E b \in Builds :
          /\ REGIME_SIGNAL_PROFILES = DeclaredProfiles(b)
          /\ env = [build |-> b, cycles |-> 0, streak |-> 0, created |-> 0]
    /\ now = 1
    /\ ret = [op |-> "none"]

\* the state after ultraAIPredict returned r in a cycle on market
DiscoveryReturned(r, stats0, market) ==
    /\ signalPerformance' = r.engine.signalPerformance
    /\ driftDetector' = r.engine.driftDetector
    /\ REGIME_SIGNAL_PROFILES' = r.engine.profiles
    /\ consecutiveHighConfLosses' = r.engine.losses
    /\ reflexiveCorrectionActive' = r.engine.active
    /\ GLOBAL_LONG_TERM_ACCURACY_FOR_LEARNING_RATE' = r.engine.globalAccuracy
    /\ sharedStats' = r.stats
    /\ now' = now + 1
    /\ ret' = [op |-> "discovery", output |-> r.output,
               qualifies |-> Qualifies(market),
               choppyCount |-> NextChoppyCount(stats0.aurochsState, market.volatility,
                                               market.choppy),
               scoredRegime |-> IF RegimeScored(stats0) THEN stats0.lastMacroRegime
                                ELSE ""]
    /\ env' = [env EXCEPT
                 !.cycles = @ + 1,
                 !.streak = IF Qualifies(market) THEN @ + 1 ELSE 0,
                 !.created =
                     IF /\ REGIME_SIGNAL_PROFILES["CUSTOM_AUROCHS_MODE"] = NoProfile
                        /\ r.engine.profiles["CUSTOM_AUROCHS_MODE"] # NoProfile
                     THEN @ + 1 ELSE @]
    /\ UNCHANGED driftLog

\* mainCycle for a new game result
DiscoveryCycle ==
    \E number \in DiscoveryNumbers, market \in DiscoveryMarkets :
        /\ env.cycles < MaxDiscoveryCycles
        /\ DiscoveryReturned(
               ultraAIPredict(env.build, Engine, Recorded(sharedStats, number), market,
                              DiscoveryResults, "BIG", DiscoveryFusion, now),
               Recorded(sharedStats, number), market)

DiscoveryNext == DiscoveryCycle

SpecDiscovery == DiscoveryInit /\ [][DiscoveryNext]_vars

\* C27: the stored choppy counter never exceeds the number of consecutive
\* qualifying cycles (a cycle that does not qualify leaves 0); the profile
\* CUSTOM_AUROCHS_MODE appears only in a cycle whose counter has reached 8,
\* where none existed; once it exists a cycle leaves it as it was, or, when
\* the cycle scores a prediction made in that regime, with one more
\* prediction counted and its accuracy history extended
C27_AurochsProfileCreatedOnce ==
    [][LET before == REGIME_SIGNAL_PROFILES["CUSTOM_AUROCHS_MODE"]
           after == REGIME_SIGNAL_PROFILES'["CUSTOM_AUROCHS_MODE"]
           scored == IF ret'.scoredRegime = "CUSTOM_AUROCHS_MODE" THEN 1 ELSE 0
       IN /\ sharedStats'.aurochsState <= env'.streak
          /\ ret'.choppyCount <= env'.streak
          /\ env'.created <= 1
          /\ (before = NoProfile /\ after # NoProfile)
                => (/\ ret'.choppyCount >= CHOPPY_PERSISTENCE_THRESHOLD
                    /\ env'.streak >= CHOPPY_PERSISTENCE_THRESHOLD)
          /\ before # NoProfile
                => (/\ after # NoProfile
                    /\ after.totalPredictions = before.totalPredictions + scored
                    /\ Len(after.recentAccuracy) = Len(before.recentAccuracy) + scored
                    /\ SubSeq(after.recentAccuracy, 1, Len(before.recentAccuracy))
                          = before.recentAccuracy
                    /\ after.activeSignalTypes = before.activeSignalTypes
                    /\ (scored = 0 => after = before))]_vars

\* a qualifying cycle with the counter past 8 found the profile with a scored
\* prediction and left it with two
C27_Witness ==
    /\ ret.op = "discovery"
    /\ ret.qualifies
    /\ ret.choppyCount > CHOPPY_PERSISTENCE_THRESHOLD
    /\ REGIME_SIGNAL_PROFILES["CUSTOM_AUROCHS_MODE"] # NoProfile
    /\ REGIME_SIGNAL_PROFILES["CUSTOM_AUROCHS_MODE"].totalPredictions = 2

\* the state object holds a prediction and the result that arrived for it
HasResult(stats) ==
    stats.lastPredictedOutcome # "" /\ stats.lastActualOutcome # Undefined

\* the prediction the state object holds was a loss at level 3
LevelThreeLoss(stats) ==
    /\ HasResult(stats)
    /\ stats.lastConfidenceLevel = 3
    /\ getBigSmallFromNumber(stats.lastActualOutcome) # stats.lastPredictedOutcome

\* C29: a call made outside the countdown for a prediction that was correct or
\* was not level 3 leaves the loss counter at 0; the call that triggers the
\* correction is made for a level-3 loss, the call before it was made for a
\* level-3 loss, and it leaves the counter at 0
C29_TwoConsecutiveLevelThreeLosses ==
    [][ret'.op = "anomaly" =>
          /\ (/\ reflexiveCorrectionActive = 0
              /\ HasResult(sharedStats')
              /\ ~LevelThreeLoss(sharedStats'))
                => consecutiveHighConfLosses' = 0
          /\ env'.sinceTrigger = 0
                => (/\ consecutiveHighConfLosses' = 0
                    /\ LevelThreeLoss(sharedStats')
                    /\ LevelThreeLoss(sharedStats))]_vars

\* C28: in a cycle with enough history whose regime profile has an allowlist
\* without 'all', a generator of a listed family that returns a signal is
\* invoked, so the cycle has valid signals and is not forced for lack of them
C28_AllowlistedGeneratorsRun ==
    (/\ ret.op = "cycle"
     /\ ret.confirmed >= 52
     /\ "all" \notin ret.types
     /\ ret.listed # {})
        => (ret.valid > 0 /\ ret.output.source # "NoValidSignals")

\* C30: for a history analyzeTrendStability reports unstable,
\* analyzeMarketEntropyState called with that report returns neither ORDERLY
\* nor STABLE_MODERATE
C30_UnstableIsNeverCalm ==
    (ret.op = "stability" /\ ~ret.stability.isStable)
        => ret.entropyState \notin {"ORDERLY", "STABLE_MODERATE"}

\* a run of one outcome over 25 records and more: unstable by dominance, with
\* zero entropy in both windows, reported as potential chaos
C30_Witness ==
    /\ ret.op = "stability"
    /\ env.pattern = "run"
    /\ env.length >= ENTROPY_WINDOW_LONG
    /\ ~ret.stability.isStable
    /\ ret.entropyState = "POTENTIAL_CHAOS_FROM_INSTABILITY"

-----------------------------------------------------------------------------
(* The inactivity decay driven call by call, for one source: the source is  *)
(* scored for up to MaxDecayUpdates consecutive periods, always right or    *)
(* always wrong, and then queried up to MaxIdleChecks times, each query in a *)
(* later period (ultraAIPredict queries a source once per cycle, with the   *)
(* clock of that cycle).                                                     *)

MaxDecayUpdates == 20

MaxIdleChecks == 3

\* how far the clock moves before a query: the next period, the last period
\* within INACTIVITY_PERIOD_FOR_DECAY, the first one past it
IdleGaps == {1, INACTIVITY_PERIOD_FOR_DECAY, INACTIVITY_PERIOD_FOR_DECAY + 1}

DecayInit ==
    /\ signalPerformance = [s \in SourceNames |-> NoPerf]
    /\ now = 1
    /\ ret = [op |-> "none"]
    /\ \E actual \in Outcomes :
          env = [actual |-> actual, updates |-> 0, checks |-> 0]
    /\ driftDetector = FreshDetector
    /\ driftLog = <<>>
    /\ CycleIdle

\* updateSignalPerformance([{source, prediction: "BIG"}], actual, periodFull, ...)
\* for the next period
DecayUpdate ==
    /\ env.updates < MaxDecayUpdates
    /\ env.checks = 0
    /\ signalPerformance' =
           updateSignalPerformance("v44.3.0", signalPerformance,
               <<[source |-> PerfSource, prediction |-> "BIG"]>>,
               env.actual, now + 1, "LOW", 8000, FALSE, "ORDERLY")
    /\ now' = now + 1
    /\ ret' = [op |-> "scored"]
    /\ env' = [env EXCEPT !.updates = @ + 1]
    /\ UNCHANGED <<driftVars, cycleVars>>

\* getDynamicWeightAdjustment(source, 0.05, currentPeriodFull, vol, history) in
\* a later period
IdleCheck ==
    \E gap \in IdleGaps :
        LET before == signalPerformance[PerfSource]
            r == getDynamicWeightAdjustment(before, 500, now + gap, "LOW", 52)
        IN /\ env.updates > 0
           /\ env.checks < MaxIdleChecks
           /\ signalPerformance' = [signalPerformance EXCEPT ![PerfSource] = r.perf]
           /\ now' = now + gap
           /\ ret' = [op |-> "idle check",
                      inactiveFor |-> now + gap - before.lastActivePeriod,
                      before |-> before.currentAdjustmentFactor,
                      wasOnProbation |-> before.isOnProbation]
           /\ env' = [env EXCEPT !.checks = @ + 1]
           /\ UNCHANGED <<driftVars, cycleVars>>

DecayNext == DecayUpdate \/ IdleCheck

SpecDecay == DecayInit /\ [][DecayNext]_vars

\* the distance of an adjustment factor from 1.0
FromOne(f) == IF f >= SCALE THEN f - SCALE ELSE SCALE - f

\* C31: an idle check of a source inactive for more than
\* INACTIVITY_PERIOD_FOR_DECAY periods leaves currentAdjustmentFactor one
\* DECAY_RATE step nearer to 1.0, on the same side of it or on it, and the
\* source off probation; a check of a source active within that many periods
\* leaves the factor and the probation flag as they were
C31_InactivityDecay ==
    ret.op = "idle check" =>
        LET after == signalPerformance[PerfSource]
        IN IF ret.inactiveFor > INACTIVITY_PERIOD_FOR_DECAY
           THEN /\ FromOne(after.currentAdjustmentFactor)
                      = Max(0, FromOne(ret.before) - DECAY_RATE)
                /\ (ret.before >= SCALE) => (after.currentAdjustmentFactor >= SCALE)
                /\ (ret.before <= SCALE) => (after.currentAdjustmentFactor <= SCALE)
                /\ ~after.isOnProbation
           ELSE /\ after.currentAdjustmentFactor = ret.before
                /\ after.isOnProbation = ret.wasOnProbation

\* a source on probation with a factor below 1.0, left as it was by a check
\* within INACTIVITY_PERIOD_FOR_DECAY periods, then checked after more idle
\* periods than that: off probation, the factor one step nearer to 1.0
C31_Witness ==
    /\ ret.op = "idle check"
    /\ env.checks >= 2
    /\ ret.inactiveFor > INACTIVITY_PERIOD_FOR_DECAY
    /\ ret.wasOnProbation
    /\ ret.before < SCALE - DECAY_RATE
    /\ signalPerformance[PerfSource].currentAdjustmentFactor = ret.before + DECAY_RATE
    /\ ~signalPerformance[PerfSource].isOnProbation

-----------------------------------------------------------------------------
(* The long-term importance score driven update by update, for one source:  *)
(* in each of up to MaxImportanceUpdates periods the ensemble predicted a    *)
(* side with a confidence of 0.60 or 0.80, the source predicted a side, and  *)
(* a result arrived.  The confidence and the market condition are those of a *)
(* run.                                                                      *)

MaxImportanceUpdates == 10

ImportanceInit ==
    /\ signalPerformance = [s \in SourceNames |-> NoPerf]
    /\ now = 1
    /\ ret = [op |-> "none"]
    /\ \E b \in Builds, c \in PerfConfidences, tough \in BOOLEAN :
          env = [build |-> b, conf |-> c, tough |-> tough, updates |-> 0]
    /\ driftDetector = FreshDetector
    /\ driftLog = <<>>
    /\ CycleIdle

\* updateSignalPerformance([{source, prediction}], actual, periodFull, vol,
\* lastFinalConfidence, concentrationModeActive, marketEntropyState) for the
\* period in which the ensemble predicted `ensemble`
ImportanceUpdate ==
    \E actual \in Outcomes, prediction \in Outcomes, ensemble \in Outcomes :
        LET before == IF signalPerformance[PerfSource] = NoPerf THEN NewPerf
                      ELSE signalPerformance[PerfSource]
        IN /\ env.updates < MaxImportanceUpdates
           /\ signalPerformance' =
                  updateSignalPerformance(env.build, signalPerformance,
                      <<[source |-> PerfSource, prediction |-> prediction]>>,
                      actual, now + 1, "LOW", env.conf, env.tough, "ORDERLY")
           /\ now' = now + 1
           /\ ret' = [op |-> "importance", actual |-> actual,
                      signalCorrect |-> prediction = actual,
                      ensembleCorrect |-> ensemble = actual,
                      before |-> before.longTermImportanceScore]
           /\ env' = [env EXCEPT !.updates = @ + 1]
           /\ UNCHANGED <<driftVars, cycleVars>>

ImportanceNext == ImportanceUpdate

SpecImportance == ImportanceInit /\ [][ImportanceNext]_vars

\* the penalty of a wrong signal under a low-confidence ensemble prediction
LowConfidencePenalty(tough) == IF tough THEN 225 ELSE 150

\* C32: the score stays within [0, 1]; a wrong signal loses more than the
\* low-confidence penalty (or all it has) when the ensemble prediction was
\* above 0.75 and wrong, whichever outcome arrived, and loses the
\* low-confidence penalty (or all it has) when the confidence was lower
C32_HighConfidencePenalty ==
    ret.op = "importance" =>
        LET score == signalPerformance[PerfSource].longTermImportanceScore
            lost == ret.before - score
        IN /\ score >= 0
           /\ score <= SCALE
           /\ (~ret.signalCorrect /\ env.conf <= 7500)
                 => lost = Min(ret.before, LowConfidencePenalty(env.tough))
           /\ (~ret.signalCorrect /\ env.conf > 7500 /\ ~ret.ensembleCorrect)
                 => (lost > LowConfidencePenalty(env.tough) \/ score = 0)

\* C33: an update takes a source off probation only when it leaves the recent
\* accuracy above 0.55; an update that leaves the accuracy between 0.40 and
\* 0.55 inclusive leaves the probation flag as it was
C33_ProbationHysteresis ==
    [][ret'.op = "update" =>
          LET before == IF signalPerformance[PerfSource] = NoPerf THEN NewPerf
                        ELSE signalPerformance[PerfSource]
              after == signalPerformance'[PerfSource]
              len == Len(after.recentAccuracy)
              c == SumSeq(after.recentAccuracy)
          IN /\ (before.isOnProbation /\ ~after.isOnProbation)
                   => c * 100 > (PROBATION_THRESHOLD_ACCURACY + 15) * len
             /\ (/\ c * 100 >= PROBATION_THRESHOLD_ACCURACY * len
                 /\ c * 100 <= (PROBATION_THRESHOLD_ACCURACY + 15) * len)
                   => after.isOnProbation = before.isOnProbation]_vars

\* a source on probation whose accuracy has recovered to the band between
\* 0.40 and 0.55: a counted update left it on probation
C33_Witness ==
    /\ ret.op = "update" /\ ret.counted
    /\ signalPerformance[PerfSource].isOnProbation
    /\ SumSeq(signalPerformance[PerfSource].recentAccuracy) * 100
          > PROBATION_THRESHOLD_ACCURACY * Len(signalPerformance[PerfSource].recentAccuracy)
    /\ SumSeq(signalPerformance[PerfSource].recentAccuracy) * 100
          <= (PROBATION_THRESHOLD_ACCURACY + 15)
                * Len(signalPerformance[PerfSource].recentAccuracy)

-----------------------------------------------------------------------------
(* The two accuracy windows driven period by period: in each of up to       *)
(* MaxWindowUpdates periods a prediction of BIG with one contributing source *)
(* is resolved.  The results of a run repeat a pattern of ResultPeriod       *)
(* outcomes; its predictions are made in one regime; its volatility is LOW   *)
(* throughout or alternates between LOW and HIGH.                            *)

MaxWindowUpdates == 60

ResultPeriod == 4

ResultPatterns == [1 .. ResultPeriod -> Outcomes]

WindowRegimes == {"TREND_STRONG_LOW_VOL", "TREND_STRONG_HIGH_VOL"}

WindowInit ==
    /\ signalPerformance = [s \in SourceNames |-> NoPerf]
    /\ now = 1
    /\ ret = [op |-> "none"]
    /\ \E pattern \in ResultPatterns, alternates \in BOOLEAN, regime \in WindowRegimes :
          env = [pattern |-> pattern, alternates |-> alternates, regime |-> regime,
                 log |-> <<>>]
    /\ driftDetector = FreshDetector
    /\ driftLog = <<>>
    /\ CycleIdle

\* the update block of ultraAIPredict for one resolved period:
\* updateSignalPerformance, then updateRegimeProfilePerformance
WindowResolve ==
    LET k == Len(env.log)
        actual == env.pattern[(k % ResultPeriod) + 1]
        vol == IF env.alternates /\ k % 2 = 1 THEN "HIGH" ELSE "LOW"
    IN /\ k < MaxWindowUpdates
       /\ signalPerformance' =
              updateSignalPerformance("v44.3.0", signalPerformance,
                  <<[source |-> PerfSource, prediction |-> "BIG"]>>,
                  actual, now + 1, vol, 6000, FALSE, "ORDERLY")
       /\ REGIME_SIGNAL_PROFILES' =
              updateRegimeProfilePerformance(REGIME_SIGNAL_PROFILES, env.regime,
                  actual, "BIG", GLOBAL_LONG_TERM_ACCURACY_FOR_LEARNING_RATE)
       /\ now' = now + 1
       /\ ret' = [op |-> "resolved", actual |-> actual]
       /\ env' = [env EXCEPT !.log = Append(@, IF actual = "BIG" THEN 1 ELSE 0)]
       /\ UNCHANGED <<driftVars, sharedStats, consecutiveHighConfLosses,
                      reflexiveCorrectionActive,
                      GLOBAL_LONG_TERM_ACCURACY_FOR_LEARNING_RATE>>

WindowNext == WindowResolve

SpecWindow == WindowInit /\ [][WindowNext]_vars

\* the newest n entries of a log, oldest first
Newest(log, n) ==
    IF Len(log) <= n THEN log ELSE SubSeq(log, Len(log) - n + 1, Len(log))

\* C34: the recentAccuracy of a source is the newest PERFORMANCE_WINDOW
\* results in arrival order, the recentAccuracy of a regime profile holds at
\* most REGIME_ACCURACY_WINDOW entries, and correct <= total in every
\* performance record, every volatility bucket and every regime profile
C34_WindowsBounded ==
    ret.op = "resolved" =>
        /\ \A s \in SourceNames :
              signalPerformance[s] # NoPerf =>
                 /\ Len(signalPerformance[s].recentAccuracy) <= PERFORMANCE_WINDOW
                 /\ signalPerformance[s].recentAccuracy
                       = Newest(env.log, PERFORMANCE_WINDOW)
                 /\ signalPerformance[s].correct <= signalPerformance[s].total
                 /\ \A v \in Volatilities :
                       signalPerformance[s].performanceByVolatility[v].correct
                          <= signalPerformance[s].performanceByVolatility[v].total
        /\ \A r \in ProfileNames :
              REGIME_SIGNAL_PROFILES[r] # NoProfile =>
                 /\ Len(REGIME_SIGNAL_PROFILES[r].recentAccuracy)
                       <= REGIME_ACCURACY_WINDOW
                 /\ REGIME_SIGNAL_PROFILES[r].correctPredictions
                       <= REGIME_SIGNAL_PROFILES[r].totalPredictions

\* both windows are full and have shifted: every period of the run resolved,
\* with results of both kinds
C34_Witness ==
    /\ ret.op = "resolved"
    /\ Len(env.log) = MaxWindowUpdates
    /\ Len(signalPerformance[PerfSource].recentAccuracy) = PERFORMANCE_WINDOW
    /\ Len(REGIME_SIGNAL_PROFILES[env.regime].recentAccuracy) = REGIME_ACCURACY_WINDOW
    /\ REGIME_SIGNAL_PROFILES[env.regime].totalPredictions = MaxWindowUpdates
    /\ signalPerformance[PerfSource].correct \in 1 .. MaxWindowUpdates - 1
    /\ signalPerformance[PerfSource].performanceByVolatility["HIGH"].total > 0

\* C35: a history of 20 or more records that are all BIG, each with a status
\* analyzeTrendStability counts as resolved, is reported unstable
C35_TwentyResolvedSuffice ==
    (/\ ret.op = "stability" /\ env.pattern = "run" /\ env.length >= 20
     /\ env.scheme = "Win/Loss")
    => ~ret.stability.isStable

\* C36: the scores of a fusion of at least one valid signal have a positive
\* total, finalDecision is the side with the larger score (BIG when they are
\* equal) whatever Math.random() draws, and a finalConfidence that is not
\* forced is at least 0.5
C36_LargerScoreDecides ==
    ret.op = "fuse" =>
        /\ Len(env.signals) >= 1
        /\ ret.scores.big + ret.scores.small > 0
        /\ ret.output.finalDecision
              = (IF ret.scores.big >= ret.scores.small THEN "BIG" ELSE "SMALL")
        /\ ~ret.output.isForcedPrediction => ret.output.finalConfidence >= SCALE \div 2

\* signals on both sides with equal scores and Math.random() on the side of
\* SMALL: a prediction of BIG that is not forced, with confidence 0.5
C36_Witness ==
    /\ ret.op = "fuse"
    /\ env.x.random = 0
    /\ ret.scores.small > 0
    /\ ret.scores.big = ret.scores.small
    /\ ret.output.finalDecision = "BIG"
    /\ ~ret.output.isForcedPrediction
    /\ ret.output.finalConfidence = SCALE \div 2

\* the cycle that starts in this state, with a prediction and its signals
\* stored, and receives `number` as the result calls the tracker, the regime
\* update and the drift detector for that prediction
ProcessesResult(number) ==
    (/\ sharedStats.lastPredictedOutcome # ""
     /\ sharedStats.lastPredictionSignals.defined
     /\ sharedStats'.lastActualOutcome = number)
    => /\ env'.trackerCalls[sharedStats.periodFull]
             = env.trackerCalls[sharedStats.periodFull] + 1
       /\ env'.driftCalls[sharedStats.periodFull]
             = env.driftCalls[sharedStats.periodFull] + 1
       /\ ret'.scoredRegime = sharedStats.lastMacroRegime

\* C37: a cycle that receives the number 0 as the result of a stored
\* prediction calls the tracker, the regime update and the drift detector for
\* it, as a cycle that receives any other number does
C37_ZeroIsProcessed ==
    [][ProcessesResult(0)]_vars

\* C38: a fusion made while reflexive correction is active or the drift state
\* is DRIFT has an uncertainty score of at least 65 and returns a forced
\* prediction of level 1
C38_CorrectionForcesOutput ==
    (ret.op = "fuse" /\ (env.x.isReflexiveCorrection \/ env.x.driftState = "DRIFT"))
        => /\ ret.output.uncertainty >= 6500
           /\ ret.output.isForcedPrediction
           /\ ret.output.confidenceLevel = 1

\* a fusion under reflexive correction whose confidence model had arrived at
\* a level above 1 and whose uncertainty stayed below 95
C38_Witness ==
    /\ ret.op = "fuse"
    /\ env.x.isReflexiveCorrection
    /\ ret.output.uncertainty < 9500
    /\ ret.output.modelLevel > 1
    /\ ret.output.isForcedPrediction
    /\ ret.output.confidenceLevel = 1

\* C39: in the firestore server no execution of mainCycle reads
\* app.locals.sharedStats before loadState has set it, so no execution that
\* stored a period's result ends without a prediction for it, and loadState
\* never replaces a state object a cycle has written to
C39_StateLoadedBeforeFirstCycle ==
    env.variant = "firestore" =>
        /\ ret.op # "failed"
        /\ \A id \in 1 .. MaxPeriods :
              (env.runs[id] = 0 /\ id \in env.stored)
                 => \E i \in Slots : env.pc[i] = "query" /\ env.period[i] = id
        /\ ret.op = "loadState" => \A id \in 1 .. MaxPeriods : env.runs[id] = 0

\* C40: every regime profile's baseWeightMultiplier is within [0.20, 1.9] and
\* its contextualAggression within [0.30, 1.8]; an update that leaves the
\* profile's accuracy FIFO with fewer than 25 entries, or with a mean between
\* 0.38 and 0.62, leaves both as they were
C40_MultipliersBounded ==
    [][ret'.op = "resolved" =>
          /\ \A r \in ProfileNames :
                REGIME_SIGNAL_PROFILES'[r] # NoProfile =>
                   /\ REGIME_SIGNAL_PROFILES'[r].baseWeightMultiplier >= 2000
                   /\ REGIME_SIGNAL_PROFILES'[r].baseWeightMultiplier <= 19000
                   /\ REGIME_SIGNAL_PROFILES'[r].contextualAggression >= 3000
                   /\ REGIME_SIGNAL_PROFILES'[r].contextualAggression <= 18000
          /\ LET before == REGIME_SIGNAL_PROFILES[env.regime]
                 after == REGIME_SIGNAL_PROFILES'[env.regime]
                 len == Len(after.recentAccuracy)
                 c == SumSeq(after.recentAccuracy)
             IN (len < 25 \/ (c * 100 >= 38 * len /\ c * 100 <= 62 * len))
                   => /\ after.baseWeightMultiplier = before.baseWeightMultiplier
                      /\ after.contextualAggression = before.contextualAggression]_vars

\* a profile that was right throughout: both multipliers at their upper limits
C40_Witness ==
    /\ ret.op = "resolved"
    /\ REGIME_SIGNAL_PROFILES[env.regime].baseWeightMultiplier = 19000
    /\ REGIME_SIGNAL_PROFILES[env.regime].contextualAggression = 18000
    /\ Len(REGIME_SIGNAL_PROFILES[env.regime].recentAccuracy) = REGIME_ACCURACY_WINDOW

====
